---- MODULE Spec2Model ----
(***************************************************************************)
(* ReviewRabbit static-analysis core: PythonASTAnalyzer, SecurityAnalyzer, *)
(* CodeAnalyzer (reviewrabbit/analyzer.py), AdvancedBugDetector            *)
(* (reviewrabbit/bug_detector.py) and the file filter of                   *)
(* reviewrabbit/config.py.                                                 *)
(*                                                                         *)
(* Seven specifications share the module:                                  *)
(*   SpecFile  one file, every outcome of reading and parsing it, and the  *)
(*             per-file entry points called on it;                         *)
(*   SpecAst   a syntax tree, its issues and the metrics computed from it; *)
(*   SpecDir   CodeAnalyzer.analyze_directory walking a directory tree,    *)
(*             and the report the analyze command builds from it;          *)
(*   SpecScan  pattern-scanner objects and the scans made with them;       *)
(*   SpecObj   objects of the four analyzer classes and the calls on them; *)
(*   SpecCat   the pattern scans as functions of the catalogue they read;  *)
(*   SpecRead  the two reads of one CodeAnalyzer.analyze_file call.        *)
(***************************************************************************)
EXTENDS Integers, Sequences, FiniteSets, TLC

VARIABLES
    file_path,    \* SpecFile: the path handed to analyze_file
    file,         \* SpecFile: what the file system and the parser give for it
    op,           \* SpecFile: the entry point that ran last ("none" before)
    result,       \* SpecFile: what that entry point returned or raised
    tree,         \* SpecAst: the parsed syntax tree
    ast_op,       \* SpecAst: the function that ran last ("none" before)
    ast_out,      \* SpecAst: its return value
    directory_path,   \* SpecDir: argument of analyze_directory
    include_patterns, \* SpecDir: argument of analyze_directory
    exclude_patterns, \* SpecDir: argument of analyze_directory
    fs,           \* SpecDir: content of every regular file of the tree
    pc,           \* SpecDir: "idle", "walk", "done", "limited", "reported", "raised"
    walk_stack,   \* SpecDir: directories os.walk has still to yield
    walk_root,    \* SpecDir: the directory os.walk yielded last
    walk_files,   \* SpecDir: files of walk_root the loop has still to visit
    all_issues,   \* SpecDir: local all_issues of analyze_directory
    all_metrics,  \* SpecDir: local all_metrics, a function on the keys set
    opened,       \* SpecDir: paths open() was called on
    visited,      \* SpecDir: paths the file loop has reached, in order
    dir_result,   \* SpecDir: the returned dictionary
    max_files_per_review, \* SpecDir: config_obj.review.max_files_per_review
    files_to_review,      \* SpecDir: files_to_review of the analyze command
    report,       \* SpecDir: the ReportData the analyze command builds
    instances,    \* SpecScan: the analyzer objects constructed, in order
    scan_log      \* SpecScan: the scans made, each with the list it returned

vars == <<file_path, file, op, result, tree, ast_op, ast_out,
          directory_path, include_patterns, exclude_patterns, fs, pc,
          walk_stack, walk_root, walk_files, all_issues, all_metrics,
          opened, visited, dir_result, max_files_per_review, files_to_review, report,
          report, instances, scan_log>>

fileVars == <<file_path, file, op, result>>
astVars  == <<tree, ast_op, ast_out>>
dirVars  == <<directory_path, include_patterns, exclude_patterns, fs, pc,
              walk_stack, walk_root, walk_files, all_issues, all_metrics,
              opened, visited, dir_result, max_files_per_review, files_to_review, report,
              report>>
scanVars == <<instances, scan_log>>

(***************************************************************************)
(* Bounds of the model.                                                    *)
(***************************************************************************)
MaxLines    == 2   \* lines of a file's content
MaxNodes    == 3   \* nodes of a generated tree below the Module node
MaxOperands == 3   \* operands of a boolean-operator node
MaxLiterals == 2   \* statements of a generated module of literals
MaxInstances == 2  \* scanner objects constructed
MaxScans    == 2   \* scans made with them

(***************************************************************************)
(* Python values.                                                          *)
(***************************************************************************)
\* A text field of an issue (message, suggestion, code_snippet) is kept as
\* the sequence of the pieces it is built from: a literal is one piece, an
\* f-string one piece per literal part and per substituted value.  None is
\* the field with no piece at all.
None == <<>>

\* An optional integer (SyntaxError.lineno and .offset may be None).
NoneInt == [some |-> FALSE, val |-> 0]

SomeInt(n) == [some |-> TRUE, val |-> n]

\* Python truthiness of an optional integer: None and 0 are false.
Truthy(x) == x.some /\ x.val # 0

\* `x or 0`
OrZero(x) == IF Truthy(x) THEN x.val ELSE 0

RECURSIVE Concat(_)
\* list.extend / append in loop order: the concatenation of a list of lists.
Concat(ss) == IF ss = <<>> THEN <<>> ELSE Head(ss) \o Concat(Tail(ss))

Range(s) == {s[i] : i \in 1..Len(s)}

(***************************************************************************)
(* The two record types.                                                   *)
(***************************************************************************)
CodeIssue(fp, line_number, column, severity, category, message, suggestion, code_snippet) ==
    [file_path |-> fp, line_number |-> line_number, column |-> column,
     severity |-> severity, category |-> category, message |-> message,
     suggestion |-> suggestion, code_snippet |-> code_snippet]

\* comment_ratio is a float; it is kept as the fraction num/den it was
\* computed from (0.0 is 0/1).
CodeMetrics(fp, lines_of_code, cyclomatic_complexity, function_count, class_count, import_count, comment_ratio) ==
    [file_path |-> fp, lines_of_code |-> lines_of_code,
     cyclomatic_complexity |-> cyclomatic_complexity,
     function_count |-> function_count, class_count |-> class_count,
     import_count |-> import_count, comment_ratio |-> comment_ratio]

ZeroRatio == [num |-> 0, den |-> 1]

\* CodeMetrics(file_path, 0, 0, 0, 0, 0, 0.0)
ZeroMetrics(fp) == CodeMetrics(fp, 0, 0, 0, 0, 0, ZeroRatio)

(***************************************************************************)
(* File content as text.  content.split('\n') is a non-empty list of       *)
(* lines; the lines of the model are the ones below.  "\\xa0" stands for   *)
(* the line made of one no-break space (U+00A0), which str.strip() removes *)
(* and the tokenizer rejects.                                              *)
(***************************************************************************)
Lines ==
    { "cursor.execute('SELECT %s' % uid)",
      "    OS.SYSTEM(cmd)  ",
      "eval(random.choice(xs))",
      "f = open('../etc/passwd')",
      "",
      "   ",
      "# note",
      "    # fix",
      "\\xa0",
      "x = 1" }

\* str.strip() on the lines of the model.
Strip(line) ==
    CASE line = "    OS.SYSTEM(cmd)  " -> "OS.SYSTEM(cmd)"
      [] line = "   " -> ""
      [] line = "    # fix" -> "# fix"
      [] line = "\\xa0" -> ""
      [] OTHER -> line

\* str.startswith('#') on a stripped line of the model.
StartsWithHash(s) == s \in {"# note", "# fix"}

(***************************************************************************)
(* The pattern catalogues.  A dict is iterated in insertion order, so each *)
(* catalogue is the sequence of its (category, patterns) items.            *)
(***************************************************************************)
security_patterns == <<
    [category |-> "sql_injection", patterns |-> <<
        "execute\\s*\\(\\s*[\"\\'].*%.*[\"\\']",
        "cursor\\.execute\\s*\\(\\s*[\"\\'].*%.*[\"\\']",
        "query\\s*=\\s*[\"\\'].*%.*[\"\\']" >>],
    [category |-> "command_injection", patterns |-> <<
        "os\\.system\\s*\\(",
        "subprocess\\.call\\s*\\(",
        "subprocess\\.run\\s*\\(",
        "eval\\s*\\(",
        "exec\\s*\\(" >>],
    [category |-> "path_traversal", patterns |-> <<
        "open\\s*\\(\\s*[\"\\'].*\\.\\./.*[\"\\']",
        "file\\s*\\(\\s*[\"\\'].*\\.\\./.*[\"\\']",
        "Path\\s*\\(\\s*[\"\\'].*\\.\\./.*[\"\\']" >>],
    [category |-> "hardcoded_secrets", patterns |-> <<
        "password\\s*=\\s*[\"\\'][^\"\\']+[\"\\']",
        "api_key\\s*=\\s*[\"\\'][^\"\\']+[\"\\']",
        "secret\\s*=\\s*[\"\\'][^\"\\']+[\"\\']",
        "token\\s*=\\s*[\"\\'][^\"\\']+[\"\\']" >>],
    [category |-> "insecure_random", patterns |-> <<
        "random\\.random\\s*\\(",
        "random\\.randint\\s*\\(",
        "random\\.choice\\s*\\(" >>]
>>

bug_patterns == <<
    [category |-> "null_pointer", patterns |-> <<
        "\\.\\w+\\s*\\(\\s*None\\s*\\)",
        "if\\s+\\w+\\s*==\\s*None\\s*:",
        "if\\s+\\w+\\s*is\\s*None\\s*:" >>],
    [category |-> "resource_leak", patterns |-> <<
        "open\\s*\\([^)]+\\)(?!\\s*as\\s+)",
        "file\\s*\\([^)]+\\)(?!\\s*as\\s+)",
        "requests\\.get\\s*\\([^)]+\\)(?!\\s*as\\s+)" >>],
    [category |-> "infinite_loop", patterns |-> <<
        "while\\s+True\\s*:",
        "for\\s+\\w+\\s+in\\s+\\w+\\s*:.*continue" >>],
    [category |-> "type_confusion", patterns |-> <<
        "str\\s*\\(\\s*\\w+\\s*\\)\\s*\\+\\s*\\d+",
        "int\\s*\\(\\s*[\"\\'][^\"\\']*[\"\\']\\s*\\)" >>],
    [category |-> "race_condition", patterns |-> <<
        "threading\\.Thread\\s*\\(",
        "multiprocessing\\.Process\\s*\\(" >>]
>>

\* re.search(pattern, line, re.IGNORECASE) is not None, for the patterns of
\* the two catalogues on the lines of the model: the pairs that match.
ReSearch(pattern, line) ==
    <<pattern, line>> \in
      { <<"execute\\s*\\(\\s*[\"\\'].*%.*[\"\\']",
          "cursor.execute('SELECT %s' % uid)">>,
        <<"cursor\\.execute\\s*\\(\\s*[\"\\'].*%.*[\"\\']",
          "cursor.execute('SELECT %s' % uid)">>,
        <<"os\\.system\\s*\\(",
          "    OS.SYSTEM(cmd)  ">>,
        <<"eval\\s*\\(",
          "eval(random.choice(xs))">>,
        <<"random\\.choice\\s*\\(",
          "eval(random.choice(xs))">>,
        <<"open\\s*\\(\\s*[\"\\'].*\\.\\./.*[\"\\']",
          "f = open('../etc/passwd')">>,
        <<"open\\s*\\([^)]+\\)(?!\\s*as\\s+)",
          "f = open('../etc/passwd')">>,
        <<"password\\s*=\\s*[\"\\'][^\"\\']+[\"\\']",
          "password = 'hunter2'">>,
        <<"if\\s+\\w+\\s*is\\s*None\\s*:",
          "if x is None:">>,
        <<"while\\s+True\\s*:",
          "while True:">>,
        <<"int\\s*\\(\\s*[\"\\'][^\"\\']*[\"\\']\\s*\\)",
          "n = int('42')">>,
        <<"threading\\.Thread\\s*\\(",
          "threading.Thread(target=f)">> }

\* SecurityAnalyzer._get_severity_for_category
SecurityAnalyzer_get_severity_for_category(category) ==
    CASE category = "sql_injection" -> "critical"
      [] category = "command_injection" -> "critical"
      [] category = "path_traversal" -> "high"
      [] category = "hardcoded_secrets" -> "high"
      [] category = "insecure_random" -> "medium"
      [] OTHER -> "medium"

\* SecurityAnalyzer._get_suggestion_for_category
SecurityAnalyzer_get_suggestion_for_category(category) ==
    CASE category = "sql_injection" -> "Use parameterized queries or an ORM to prevent SQL injection"
      [] category = "command_injection" -> "Use subprocess with shell=False and validate input"
      [] category = "path_traversal" -> "Validate and sanitize file paths before use"
      [] category = "hardcoded_secrets" -> "Use environment variables or secure configuration management"
      [] category = "insecure_random" -> "Use secrets module for cryptographic purposes"
      [] OTHER -> "Review this code for security implications"

\* AdvancedBugDetector._get_severity_for_bug
get_severity_for_bug(category) ==
    CASE category = "null_pointer" -> "high"
      [] category = "resource_leak" -> "high"
      [] category = "infinite_loop" -> "critical"
      [] category = "type_confusion" -> "medium"
      [] category = "race_condition" -> "high"
      [] OTHER -> "medium"

\* AdvancedBugDetector._get_suggestion_for_bug
get_suggestion_for_bug(category) ==
    CASE category = "null_pointer" -> "Add null checks before accessing object methods"
      [] category = "resource_leak" -> "Use context managers (with statements) for resource management"
      [] category = "infinite_loop" -> "Add proper loop termination conditions"
      [] category = "type_confusion" -> "Ensure proper type conversion and validation"
      [] category = "race_condition" -> "Use proper synchronization mechanisms"
      [] OTHER -> "Review this code for potential issues"

\* f"security_{category}" for the categories of the catalogue
SecurityCategory(category) ==
    CASE category = "sql_injection" -> "security_sql_injection"
      [] category = "command_injection" -> "security_command_injection"
      [] category = "path_traversal" -> "security_path_traversal"
      [] category = "hardcoded_secrets" -> "security_hardcoded_secrets"
      [] category = "insecure_random" -> "security_insecure_random"

\* f"bug_{category}" for the categories of the catalogue
BugCategory(category) ==
    CASE category = "null_pointer" -> "bug_null_pointer"
      [] category = "resource_leak" -> "bug_resource_leak"
      [] category = "infinite_loop" -> "bug_infinite_loop"
      [] category = "type_confusion" -> "bug_type_confusion"
      [] category = "race_condition" -> "bug_race_condition"

\* SecurityIssue with the severity and the suggestion looked up under the
\* prefixed name, security_<category>, which neither table has as a key.
SecurityIssue_LooksUpPrefixed(fp, category, i, line) ==
    CodeIssue(fp, i, 0,
              SecurityAnalyzer_get_severity_for_category(SecurityCategory(category)),
              SecurityCategory(category),
              <<"Potential ", category, " vulnerability">>,
              <<SecurityAnalyzer_get_suggestion_for_category(SecurityCategory(category))>>,
              <<Strip(line)>>)

\* The issue appended by the innermost loop body of SecurityAnalyzer.analyze_file
\* for line i (1-based).
SecurityIssue(fp, category, i, line) ==
    CodeIssue(fp, i, 0,
              SecurityAnalyzer_get_severity_for_category(category),
              SecurityCategory(category),
              <<"Potential ", category, " vulnerability">>,
              <<SecurityAnalyzer_get_suggestion_for_category(category)>>,
              <<Strip(line)>>)

\* The three nested loops of SecurityAnalyzer.analyze_file: categories, then
\* the patterns of the category, then the lines; one append per match.
SecurityScanWith(patterns, fp, lines) ==
    Concat([c \in 1..Len(patterns) |->
      Concat([k \in 1..Len(patterns[c].patterns) |->
        Concat([i \in 1..Len(lines) |->
          IF ReSearch(patterns[c].patterns[k], lines[i])
          THEN <<SecurityIssue(fp, patterns[c].category, i, lines[i])>>
          ELSE <<>>])])])

\* the loops on an object whose self.security_patterns is as __init__ set it
SecurityScan(fp, lines) == SecurityScanWith(security_patterns, fp, lines)

\* The issue appended by the innermost loop body of detect_bugs.
BugIssue(fp, category, i, line) ==
    CodeIssue(fp, i, 0,
              get_severity_for_bug(category),
              BugCategory(category),
              <<"Potential ", category, " bug detected">>,
              <<get_suggestion_for_bug(category)>>,
              <<Strip(line)>>)

\* AdvancedBugDetector.detect_bugs(file_path, content), lines = content.split('\n')
detect_bugs_with(patterns, fp, lines) ==
    Concat([c \in 1..Len(patterns) |->
      Concat([k \in 1..Len(patterns[c].patterns) |->
        Concat([i \in 1..Len(lines) |->
          IF ReSearch(patterns[c].patterns[k], lines[i])
          THEN <<BugIssue(fp, patterns[c].category, i, lines[i])>>
          ELSE <<>>])])])

\* detect_bugs on an object whose self.bug_patterns is as __init__ set it
detect_bugs(fp, lines) == detect_bugs_with(bug_patterns, fp, lines)

(***************************************************************************)
(* Syntax trees.  A tree is a sequence of nodes, node 1 the Module; a node *)
(* carries its kind, its child nodes in iter_child_nodes order, and the    *)
(* attributes the analyzers read.  Nodes whose kind no rule and no metric  *)
(* looks at (operators, contexts, plain operands) may be left out of       *)
(* children.                                                               *)
(***************************************************************************)
\* A node of the given kind with every attribute at its default.
Node(kind) ==
    [kind |-> kind, children |-> <<>>, lineno |-> 1, col_offset |-> 0,
     names |-> <<>>,        \* Import, ImportFrom: alias.name of every alias
     bound |-> <<>>,        \* Import, ImportFrom: the name every alias binds
     name |-> "",           \* FunctionDef: name
     nbody |-> 0,           \* FunctionDef: len(node.body)
     nargs |-> 0,           \* FunctionDef: len(node.args.args)
     nposonly |-> 0,        \* FunctionDef: len(node.args.posonlyargs), the parameters before "/"
     is_str |-> FALSE,      \* Constant: isinstance(node.value, str)
     strlen |-> 0,          \* Constant: len(node.value)
     text |-> "",           \* Constant: how the string value begins
     type_none |-> FALSE,   \* ExceptHandler: node.type is None
     value |-> 0,           \* Expr, Attribute: index of the node node.value
     id |-> "",             \* Name: id
     nvalues |-> 0]         \* BoolOp: len(node.values)

RECURSIVE WalkFrom(_, _)
\* ast.walk: a deque of nodes to visit; popleft, extend with the children.
WalkFrom(t, todo) ==
    IF todo = <<>> THEN <<>>
    ELSE <<Head(todo)>> \o WalkFrom(t, Tail(todo) \o t[Head(todo)].children)

\* ast.walk(tree), as the sequence of node indexes in the order yielded.
Walk(t) == WalkFrom(t, <<1>>)

RECURSIVE ComplexityLoop_AddsEveryOperand(_, _, _)
\* ComplexityLoop with a boolean operator counted once per operand instead
\* of once per operand after the first.
ComplexityLoop_AddsEveryOperand(t, w, complexity) ==
    IF w = <<>> THEN complexity
    ELSE LET node == t[Head(w)] IN
         IF node.kind \in {"If", "While", "For", "AsyncFor", "ExceptHandler"}
         THEN ComplexityLoop_AddsEveryOperand(t, Tail(w), complexity + 1)
         ELSE IF node.kind = "BoolOp"
         THEN ComplexityLoop_AddsEveryOperand(t, Tail(w), complexity + node.nvalues)
         ELSE ComplexityLoop_AddsEveryOperand(t, Tail(w), complexity)

RECURSIVE ComplexityLoop_CountsModule(_, _, _)
\* ComplexityLoop with the Module node counted as a decision point too.
ComplexityLoop_CountsModule(t, w, complexity) ==
    IF w = <<>> THEN complexity
    ELSE LET node == t[Head(w)] IN
         IF node.kind \in {"Module", "If", "While", "For", "AsyncFor", "ExceptHandler"}
         THEN ComplexityLoop_CountsModule(t, Tail(w), complexity + 1)
         ELSE IF node.kind = "BoolOp"
         THEN ComplexityLoop_CountsModule(t, Tail(w), complexity + node.nvalues - 1)
         ELSE ComplexityLoop_CountsModule(t, Tail(w), complexity)

RECURSIVE ComplexityLoop(_, _, _)
\* The loop of _calculate_metrics over ast.walk(tree); w is the rest of the
\* walk and complexity the running value.
ComplexityLoop(t, w, complexity) ==
    IF w = <<>> THEN complexity
    ELSE LET node == t[Head(w)] IN
         IF node.kind \in {"If", "While", "For", "AsyncFor", "ExceptHandler"}
         THEN ComplexityLoop(t, Tail(w), complexity + 1)
         ELSE IF node.kind = "BoolOp"
         THEN ComplexityLoop(t, Tail(w), complexity + node.nvalues - 1)
         ELSE ComplexityLoop(t, Tail(w), complexity)

\* calculate_metrics with lines_of_code counting the non-blank lines that
\* are not comments.
calculate_metrics_CodeLinesOnly(t, fp, lines) ==
    LET NonBlank(line) == Strip(line) # "" /\ ~StartsWithHash(Strip(line))
        IsComment(line) == StartsWithHash(Strip(line))
        lines_of_code == Len(SelectSeq(lines, NonBlank))
        comment_lines == Len(SelectSeq(lines, IsComment))
        comment_ratio == IF lines_of_code > 0
                         THEN [num |-> comment_lines, den |-> lines_of_code]
                         ELSE ZeroRatio
        IsFunctionDef(n) == t[n].kind = "FunctionDef"
        IsClassDef(n) == t[n].kind = "ClassDef"
        IsImport(n) == t[n].kind \in {"Import", "ImportFrom"}
    IN  CodeMetrics(fp, lines_of_code,
                    ComplexityLoop(t, Walk(t), 1),
                    Len(SelectSeq(Walk(t), IsFunctionDef)),
                    Len(SelectSeq(Walk(t), IsClassDef)),
                    Len(SelectSeq(Walk(t), IsImport)),
                    comment_ratio)

\* calculate_metrics with the complexity counter started at 0 instead of 1.
calculate_metrics_StartsAtZero(t, fp, lines) ==
    LET NonBlank(line) == Strip(line) # ""
        IsComment(line) == StartsWithHash(Strip(line))
        lines_of_code == Len(SelectSeq(lines, NonBlank))
        comment_lines == Len(SelectSeq(lines, IsComment))
        comment_ratio == IF lines_of_code > 0
                         THEN [num |-> comment_lines, den |-> lines_of_code]
                         ELSE ZeroRatio
        IsFunctionDef(n) == t[n].kind = "FunctionDef"
        IsClassDef(n) == t[n].kind = "ClassDef"
        IsImport(n) == t[n].kind \in {"Import", "ImportFrom"}
    IN  CodeMetrics(fp, lines_of_code,
                    ComplexityLoop(t, Walk(t), 0),
                    Len(SelectSeq(Walk(t), IsFunctionDef)),
                    Len(SelectSeq(Walk(t), IsClassDef)),
                    Len(SelectSeq(Walk(t), IsImport)),
                    comment_ratio)

\* PythonASTAnalyzer._calculate_metrics(tree, file_path, content),
\* lines = content.split('\n')
calculate_metrics(t, fp, lines) ==
    LET NonBlank(line) == Strip(line) # ""
        IsComment(line) == StartsWithHash(Strip(line))
        lines_of_code == Len(SelectSeq(lines, NonBlank))
        comment_lines == Len(SelectSeq(lines, IsComment))
        comment_ratio == IF lines_of_code > 0
                         THEN [num |-> comment_lines, den |-> lines_of_code]
                         ELSE ZeroRatio
        IsFunctionDef(n) == t[n].kind = "FunctionDef"
        IsClassDef(n) == t[n].kind = "ClassDef"
        IsImport(n) == t[n].kind \in {"Import", "ImportFrom"}
    IN  CodeMetrics(fp, lines_of_code,
                    ComplexityLoop(t, Walk(t), 1),
                    Len(SelectSeq(Walk(t), IsFunctionDef)),
                    Len(SelectSeq(Walk(t), IsClassDef)),
                    Len(SelectSeq(Walk(t), IsImport)),
                    comment_ratio)

\* str(len(...)) inside an f-string
Str(n) == ToString(n)

\* is_import_used without the comparison of the name: any Name node, or
\* any attribute access on a name, counts as a use.
is_import_used_AnyName(t, import_name) ==
    \E i \in 1..Len(Walk(t)) :
        LET node == t[Walk(t)[i]] IN
            \/ node.kind = "Name"
            \/ /\ node.kind = "Attribute"
               /\ node.value # 0
               /\ t[node.value].kind = "Name"

\* PythonASTAnalyzer._is_import_used(tree, import_name)
is_import_used(t, import_name) ==
    \E i \in 1..Len(Walk(t)) :
        LET node == t[Walk(t)[i]] IN
            \/ node.kind = "Name" /\ node.id = import_name
            \/ /\ node.kind = "Attribute"
               /\ node.value # 0
               /\ t[node.value].kind = "Name"
               /\ t[node.value].id = import_name

\* str.startswith(('http', 'https', 'file://')) on the string values of the
\* model, each named by how it begins.
StartsWithUrl(text) == text \in {"http://h/", "https://h/", "file:///f", "httpd.conf"}

\* LongString with the limit met at 50 characters already.
LongString_FromFifty(node) ==
    node.strlen >= 50 /\ ~StartsWithUrl(node.text)

\* len(node.value) > 50 and not node.value.startswith(('http', 'https', 'file://'))
LongString(node) ==
    node.strlen > 50 /\ ~StartsWithUrl(node.text)

\* str.strip() on the string values of the model.
StripText(text) ==
    CASE text = "  fixme: y " -> "fixme: y"
      [] OTHER -> text

\* UpperStartsWithMarker without upper(): the markers as written in the
\* tuple only.
UpperStartsWithMarker_CaseSensitive(comment) ==
    comment \in {"TODO: x"}

\* comment.upper().startswith(('TODO', 'FIXME', 'HACK', 'XXX')) on the
\* stripped string values of the model.
UpperStartsWithMarker(comment) ==
    comment \in {"TODO: x", "fixme: y", "Hack", "xxx"}

\* The body of the loop of _analyze_ast for the node at index n: the issues
\* it appends.
NodeIssues(t, fp, n) ==
    LET node == t[n] IN
    IF node.kind = "Import"
    THEN Concat([a \in 1..Len(node.names) |->
           IF ~is_import_used(t, node.names[a])
           THEN <<CodeIssue(fp, node.lineno, node.col_offset, "low", "unused_import",
                            <<"Unused import: ", node.names[a]>>,
                            <<"Remove unused import: ", node.names[a]>>,
                            None)>>
           ELSE <<>>])
    ELSE IF node.kind = "FunctionDef"
    THEN (IF node.nbody > 50
          THEN <<CodeIssue(fp, node.lineno, node.col_offset, "medium", "code_quality",
                           <<"Function '", node.name, "' is too long (", Str(node.nbody), " lines)">>,
                           <<"Consider breaking this function into smaller functions">>,
                           None)>>
          ELSE <<>>)
         \o
         (IF node.nargs > 7
          THEN <<CodeIssue(fp, node.lineno, node.col_offset, "medium", "code_quality",
                           <<"Function '", node.name, "' has too many parameters (", Str(node.nargs), ")">>,
                           <<"Consider using a data class or dictionary to group related parameters">>,
                           None)>>
          ELSE <<>>)
    ELSE IF node.kind = "Constant" /\ node.is_str
    THEN IF LongString(node)
         THEN <<CodeIssue(fp, node.lineno, node.col_offset, "low", "best_practices",
                          <<"Consider moving long string to a constant or configuration file">>,
                          <<"Extract long strings to module-level constants">>,
                          None)>>
         ELSE <<>>
    ELSE IF node.kind = "ExceptHandler"
    THEN IF node.type_none
         THEN <<CodeIssue(fp, node.lineno, node.col_offset, "high", "error_handling",
                          <<"Bare except clause catches all exceptions">>,
                          <<"Specify the exception type or use 'except Exception as e:'">>,
                          None)>>
         ELSE <<>>
    ELSE IF node.kind = "Expr" /\ node.value # 0 /\ t[node.value].kind = "Constant"
    THEN IF t[node.value].is_str /\ UpperStartsWithMarker(StripText(t[node.value].text))
         THEN <<CodeIssue(fp, node.lineno, node.col_offset, "info", "documentation",
                          <<"Code comment: ", StripText(t[node.value].text)>>,
                          <<"Address the TODO/FIXME comment">>,
                          None)>>
         ELSE <<>>
    ELSE <<>>

\* PythonASTAnalyzer._analyze_ast(tree, file_path, content)
analyze_ast(t, fp, lines) ==
    Concat([i \in 1..Len(Walk(t)) |-> NodeIssues(t, fp, Walk(t)[i])])

(***************************************************************************)
(* Paths and glob patterns.  A path is the sequence of its parts, a glob   *)
(* pattern the sequence of its parts too ("*/build/*" is <<"*", "build",   *)
(* "*">>); a part is spelled out character by character where the code     *)
(* looks inside it.                                                        *)
(***************************************************************************)
Chars(name) ==
    CASE name = "proj" -> << "p", "r", "o", "j" >>
      [] name = "*" -> << "*" >>
      [] name = "build" -> << "b", "u", "i", "l", "d" >>
      [] name = "sub" -> << "s", "u", "b" >>
      [] name = "a.py" -> << "a", ".", "p", "y" >>
      [] name = "S.PY" -> << "S", ".", "P", "Y" >>
      [] name = "c.js" -> << "c", ".", "j", "s" >>
      [] name = "x.py" -> << "x", ".", "p", "y" >>
      [] name = "d.py" -> << "d", ".", "p", "y" >>
      [] name = "*.py" -> << "*", ".", "p", "y" >>
      [] name = "*.js" -> << "*", ".", "j", "s" >>
      [] name = "*.ts" -> << "*", ".", "t", "s" >>
      [] name = "*.jsx" -> << "*", ".", "j", "s", "x" >>
      [] name = "*.tsx" -> << "*", ".", "t", "s", "x" >>
      [] name = "*.java" -> << "*", ".", "j", "a", "v", "a" >>
      [] name = "*.cpp" -> << "*", ".", "c", "p", "p" >>
      [] name = "*.c" -> << "*", ".", "c" >>
      [] name = "*.cs" -> << "*", ".", "c", "s" >>
      [] name = "*.go" -> << "*", ".", "g", "o" >>
      [] name = "*.rs" -> << "*", ".", "r", "s" >>
      [] name = "*.php" -> << "*", ".", "p", "h", "p" >>
      [] name = "*.rb" -> << "*", ".", "r", "b" >>
      [] name = "node_modules" -> << "n", "o", "d", "e", "_", "m", "o", "d", "u", "l", "e", "s" >>
      [] name = "venv" -> << "v", "e", "n", "v" >>
      [] name = "env" -> << "e", "n", "v" >>
      [] name = ".git" -> << ".", "g", "i", "t" >>
      [] name = "__pycache__" -> << "_", "_", "p", "y", "c", "a", "c", "h", "e", "_", "_" >>
      [] name = "dist" -> << "d", "i", "s", "t" >>
      [] name = "target" -> << "t", "a", "r", "g", "e", "t" >>

\* str.lower() on one character.
LowerChar(c) ==
    CASE c = "P" -> "p"
      [] c = "Y" -> "y"
      [] c = "S" -> "s"
      [] OTHER -> c

Lower(cs) == [i \in 1..Len(cs) |-> LowerChar(cs[i])]

\* str.rfind('.') as a 1-based index, 0 when there is no dot.
RFindDot(cs) ==
    IF \E i \in 1..Len(cs) : cs[i] = "."
    THEN CHOOSE i \in 1..Len(cs) : cs[i] = "." /\ \A j \in (i+1)..Len(cs) : cs[j] # "."
    ELSE 0

\* PurePath.suffix of a path, from its last part: the part from the last dot
\* on, unless the dot is the first or the last character.
Suffix(path) ==
    LET cs == Chars(path[Len(path)])
        i  == RFindDot(cs)
    IN  IF 1 < i /\ i < Len(cs) THEN SubSeq(cs, i, Len(cs)) ELSE <<>>

RECURSIVE FnMatchChars(_, _)
\* fnmatch.fnmatchcase(name, pat) for patterns of literal characters and "*".
FnMatchChars(cs, pat) ==
    IF pat = <<>> THEN cs = <<>>
    ELSE IF Head(pat) = "*"
    THEN \/ FnMatchChars(cs, Tail(pat))
         \/ cs # <<>> /\ FnMatchChars(Tail(cs), pat)
    ELSE cs # <<>> /\ Head(cs) = Head(pat) /\ FnMatchChars(Tail(cs), Tail(pat))

\* PurePath.match(pattern) for a relative pattern: the pattern is matched
\* part by part against the last parts of the path.
PathMatch(path, pattern) ==
    /\ Len(pattern) <= Len(path)
    /\ \A k \in 1..Len(pattern) :
          FnMatchChars(Chars(path[Len(path) - Len(pattern) + k]), Chars(pattern[k]))

\* PurePath(p).parents, as a set: every proper prefix of the parts, the
\* empty path "." included.
Parents(p) == {SubSeq(p, 1, k) : k \in 0..(Len(p) - 1)}

\* os.path.join(root, file); Path(root) / d
Join(root, entry) == Append(root, entry)

(***************************************************************************)
(* One file, as the analyzers meet it: whether open()/read() succeeds,     *)
(* the lines of the content read, and what ast.parse does with the         *)
(* content: it returns a tree (kind "ok"), raises SyntaxError with the     *)
(* position it reports (kind "syntax"), or raises another exception (kind  *)
(* "error").                                                               *)
(***************************************************************************)
ParseOk(t) == [kind |-> "ok", tree |-> t, lineno |-> NoneInt, offset |-> NoneInt]

ParseSyntaxError(lineno, offset) ==
    [kind |-> "syntax", tree |-> <<>>, lineno |-> lineno, offset |-> offset]

ParseError == [kind |-> "error", tree |-> <<>>, lineno |-> NoneInt, offset |-> NoneInt]

ReadableFile(lines, parse) == [readable |-> TRUE, lines |-> lines, parse |-> parse]

\* A file open() or read() fails on (permission denied, undecodable bytes).
UnreadableFile == [readable |-> FALSE, lines |-> <<"">>, parse |-> ParseError]

\* What an entry point hands back: the exception that left it, or the
\* issues and (where the entry point has them) the metrics it returned;
\* opens counts the calls of open() it made.
Returned(issues, metrics, opens) ==
    [raised |-> FALSE, exc |-> "", issues |-> issues, metrics |-> <<metrics>>, opens |-> opens]

ReturnedIssues(issues, opens) ==
    [raised |-> FALSE, exc |-> "", issues |-> issues, metrics |-> <<>>, opens |-> opens]

Raised(exc, opens) ==
    [raised |-> TRUE, exc |-> exc, issues |-> <<>>, metrics |-> <<>>, opens |-> opens]

\* The handler of SyntaxError in PythonASTAnalyzer.analyze_file.  The
\* code_snippet expression indexes content.split('\n') with e.lineno - 1;
\* an index past the end raises IndexError inside the handler, which no
\* other handler of the same try statement catches.
SyntaxErrorHandler(fp, f) ==
    LET e == f.parse IN
    IF Truthy(e.lineno) /\ e.lineno.val - 1 >= Len(f.lines)
    THEN Raised("IndexError", 1)
    ELSE Returned(
           <<CodeIssue(fp, OrZero(e.lineno), OrZero(e.offset), "critical", "syntax_error",
                       <<"Syntax error: ", "invalid syntax">>,
                       None,
                       IF Truthy(e.lineno) THEN <<f.lines[e.lineno.val]>> ELSE None)>>,
           ZeroMetrics(fp), 1)

\* The handler of Exception in PythonASTAnalyzer.analyze_file.
ExceptionHandler(fp, why) ==
    Returned(<<CodeIssue(fp, 0, 0, "high", "analysis_error",
                         <<"Analysis error: ", why>>, None, None)>>,
             ZeroMetrics(fp), 1)

\* PythonASTAnalyzer.analyze_file(file_path)
PythonASTAnalyzer_analyze_file(fp, f) ==
    IF ~f.readable THEN ExceptionHandler(fp, "cannot read")
    ELSE IF f.parse.kind = "syntax" THEN SyntaxErrorHandler(fp, f)
    ELSE IF f.parse.kind = "error" THEN ExceptionHandler(fp, "cannot parse")
    ELSE Returned(analyze_ast(f.parse.tree, fp, f.lines),
                  calculate_metrics(f.parse.tree, fp, f.lines), 1)

\* SecurityAnalyzer.analyze_file(file_path)
SecurityAnalyzer_analyze_file(fp, f) ==
    IF ~f.readable
    THEN ReturnedIssues(<<CodeIssue(fp, 0, 0, "high", "analysis_error",
                                    <<"Security analysis error: ", "cannot read">>,
                                    None, None)>>, 1)
    ELSE ReturnedIssues(SecurityScan(fp, f.lines), 1)

\* CodeAnalyzer_analyze_file with the pattern scan made on every file,
\* whatever its suffix.
CodeAnalyzer_analyze_file_ScansEveryFile(fp, f) ==
    IF Lower(Suffix(fp)) = <<".", "p", "y">>
    THEN LET ast == PythonASTAnalyzer_analyze_file(fp, f)
             security == SecurityAnalyzer_analyze_file(fp, f)
         IN  IF ast.raised THEN Raised(ast.exc, ast.opens)
             ELSE Returned(ast.issues \o security.issues, ast.metrics[1],
                           ast.opens + security.opens)
    ELSE LET security == SecurityAnalyzer_analyze_file(fp, f)
         IN  Returned(security.issues, ZeroMetrics(fp), security.opens)

\* CodeAnalyzer.analyze_file(file_path)
CodeAnalyzer_analyze_file(fp, f) ==
    IF Lower(Suffix(fp)) = <<".", "p", "y">>
    THEN LET ast == PythonASTAnalyzer_analyze_file(fp, f)
             security == SecurityAnalyzer_analyze_file(fp, f)
         IN  IF ast.raised THEN Raised(ast.exc, ast.opens)
             ELSE Returned(ast.issues \o security.issues, ast.metrics[1],
                           ast.opens + security.opens)
    ELSE Returned(<<>>, ZeroMetrics(fp), 0)

(***************************************************************************)
(* SpecFile: the per-file entry points on one file.                        *)
(***************************************************************************)
EmptyModule == <<Node("Module")>>

\* import os / try: ... except: ...  with os never used
SmallModule ==
    << [Node("Module") EXCEPT !.children = <<2, 3>>, !.lineno = 0],
       [Node("Import") EXCEPT !.names = <<"os">>, !.bound = <<"os">>, !.lineno = 1],
       [Node("ExceptHandler") EXCEPT !.type_none = TRUE, !.lineno = 2] >>

SampleTrees == {EmptyModule, SmallModule}

Contents == UNION {[1..n -> Lines] : n \in 1..MaxLines}

\* Every outcome of ast.parse on a content of n lines: the reported line is
\* absent, 0, a line of the content, or the line after the last one.
ParseOutcomes(n) ==
    {ParseOk(t) : t \in SampleTrees}
    \cup {ParseSyntaxError(l, o) :
            l \in {NoneInt} \cup {SomeInt(k) : k \in 0..(n + 1)},
            o \in {NoneInt, SomeInt(0), SomeInt(3)}}
    \cup {ParseError}

\* a line the tokenizer gets no token from: blank, or a comment
Tokenless(line) == line \in {"", "   ", "# note", "    # fix"}

\* What ast.parse(content) can do, as far as the content decides it: a
\* content without a token parses to the empty module; one whose only
\* tokens are no-break spaces is rejected at the first of them, column 1;
\* any other content with a no-break space is rejected somewhere.
ast_parse(c) ==
    LET nbsp == {i \in 1..Len(c) : c[i] = "\\xa0"} IN
    IF \A i \in 1..Len(c) : Tokenless(c[i])
    THEN {ParseOk(EmptyModule)}
    ELSE IF \A i \in 1..Len(c) : Tokenless(c[i]) \/ i \in nbsp
    THEN {ParseSyntaxError(SomeInt(CHOOSE i \in nbsp : \A j \in nbsp : i <= j), SomeInt(1))}
    ELSE IF nbsp # {}
    THEN {p \in ParseOutcomes(Len(c)) : p.kind = "syntax"}
    ELSE ParseOutcomes(Len(c))

Files ==
    {UnreadableFile}
    \cup UNION {{ReadableFile(c, p) : p \in ast_parse(c)} : c \in Contents}

FilePaths == {<<"proj", "a.py">>, <<"proj", "S.PY">>, <<"proj", "c.js">>}

NoResult == [raised |-> FALSE, exc |-> "", issues |-> <<>>, metrics |-> <<>>, opens |-> 0]

NoAstOut == [issues |-> <<>>, metrics |-> <<>>]

AstIdle == /\ tree = EmptyModule
           /\ ast_op = "none"
           /\ ast_out = NoAstOut

\* An optional list argument: None, or the list given.
NoPatterns == [given |-> FALSE, patterns |-> <<>>]

Patterns(ps) == [given |-> TRUE, patterns |-> ps]

NoDirResult == [issues |-> <<>>, metrics |-> <<>>, total_files |-> 0, total_issues |-> 0]

\* no report built yet
NoReport == [files_analyzed |-> <<>>, issues_by_file |-> <<>>, metrics_by_file |-> <<>>,
             total_issues |-> 0, total_files |-> 0]

\* ReviewConfig.max_files_per_review: int = 10
DefaultMaxFiles == 10

DirIdle == /\ directory_path = <<>>
           /\ include_patterns = NoPatterns
           /\ exclude_patterns = NoPatterns
           /\ fs = <<>>
           /\ pc = "idle"
           /\ walk_stack = <<>>
           /\ walk_root = <<>>
           /\ walk_files = <<>>
           /\ all_issues = <<>>
           /\ all_metrics = <<>>
           /\ opened = {}
           /\ visited = <<>>
           /\ dir_result = NoDirResult
           /\ max_files_per_review = DefaultMaxFiles
           /\ files_to_review = <<>>
           /\ report = NoReport

ScanIdle == /\ instances = <<>>
            /\ scan_log = <<>>

FileIdle == /\ file_path = <<"proj", "a.py">>
            /\ file = UnreadableFile
            /\ op = "none"
            /\ result = NoResult

InitFile ==
    /\ file_path \in FilePaths
    /\ file \in Files
    /\ op = "none"
    /\ result = NoResult
    /\ AstIdle
    /\ DirIdle
    /\ ScanIdle

\* a caller invokes CodeAnalyzer.analyze_file(file_path)
CallAnalyzeFile ==
    /\ op' = "CodeAnalyzer.analyze_file"
    /\ result' = CodeAnalyzer_analyze_file(file_path, file)
    /\ UNCHANGED <<file_path, file, astVars, dirVars, scanVars>>

\* a caller invokes PythonASTAnalyzer.analyze_file(file_path)
CallPythonAnalyzeFile ==
    /\ op' = "PythonASTAnalyzer.analyze_file"
    /\ result' = PythonASTAnalyzer_analyze_file(file_path, file)
    /\ UNCHANGED <<file_path, file, astVars, dirVars, scanVars>>

\* a caller invokes SecurityAnalyzer.analyze_file(file_path)
CallSecurityAnalyzeFile ==
    /\ op' = "SecurityAnalyzer.analyze_file"
    /\ result' = SecurityAnalyzer_analyze_file(file_path, file)
    /\ UNCHANGED <<file_path, file, astVars, dirVars, scanVars>>

\* a caller that has read the content invokes detect_bugs(file_path, content)
CallDetectBugs ==
    /\ file.readable
    /\ op' = "AdvancedBugDetector.detect_bugs"
    /\ result' = ReturnedIssues(detect_bugs(file_path, file.lines), 0)
    /\ UNCHANGED <<file_path, file, astVars, dirVars, scanVars>>

NextFile ==
    \/ CallAnalyzeFile
    \/ CallPythonAnalyzeFile
    \/ CallSecurityAnalyzeFile
    \/ CallDetectBugs

SpecFile == InitFile /\ [][NextFile]_vars

IsPy(fp) == Lower(Suffix(fp)) = <<".", "p", "y">>

\* C1: for every outcome of reading and parsing the file (the reported line
\* of a syntax error absent, inside or beyond the content included),
\* PythonASTAnalyzer.analyze_file and CodeAnalyzer.analyze_file return an
\* (issues, metrics) pair and raise nothing.
C1_AnalyzeFileNeverRaises ==
    op \in {"CodeAnalyzer.analyze_file", "PythonASTAnalyzer.analyze_file"} =>
        /\ ~result.raised
        /\ Len(result.metrics) = 1

\* C2: a .py file that cannot be read gives, from CodeAnalyzer.analyze_file,
\* exactly one issue, high / analysis_error, and metrics that are zero in
\* every field but file_path.
C2_OneIssueForUnreadableFile ==
    (op = "CodeAnalyzer.analyze_file" /\ IsPy(file_path) /\ ~file.readable) =>
        /\ ~result.raised
        /\ Len(result.issues) = 1
        /\ result.issues[1].severity = "high"
        /\ result.issues[1].category = "analysis_error"
        /\ result.metrics = <<ZeroMetrics(file_path)>>

\* C6: when ast.parse raises SyntaxError, PythonASTAnalyzer.analyze_file
\* returns exactly one issue, critical / syntax_error, at the reported line
\* and column (0 where none is reported), with all-zero metrics.
C6_OneIssueForSyntaxError ==
    (op = "PythonASTAnalyzer.analyze_file" /\ file.readable /\ file.parse.kind = "syntax") =>
        /\ ~result.raised
        /\ Len(result.issues) = 1
        /\ result.issues[1].severity = "critical"
        /\ result.issues[1].category = "syntax_error"
        /\ result.issues[1].line_number = OrZero(file.parse.lineno)
        /\ result.issues[1].column = OrZero(file.parse.offset)
        /\ result.metrics = <<ZeroMetrics(file_path)>>

\* the number of elements of a list equal to x
Occurrences(xs, x) == Cardinality({i \in 1..Len(xs) : xs[i] = x})

\* C7: for a .py file whose parse fails with a syntax error, the result of
\* CodeAnalyzer.analyze_file holds the syntax_error issue and every issue
\* the pattern scan produces on the file's text, as often as it produces it.
C7_ScanIndependentOfParse ==
    (op = "CodeAnalyzer.analyze_file" /\ IsPy(file_path) /\ file.readable
       /\ file.parse.kind = "syntax") =>
        /\ ~result.raised
        /\ \E i \in 1..Len(result.issues) : result.issues[i].category = "syntax_error"
        /\ \A x \in Range(SecurityScan(file_path, file.lines)) :
              Occurrences(result.issues, x) = Occurrences(SecurityScan(file_path, file.lines), x)

\* an issue of the given category at line i, column 0, whose snippet is the
\* trimmed line
HasPatternIssue(issues, category, i, line) ==
    \E j \in 1..Len(issues) :
        /\ issues[j].category = category
        /\ issues[j].line_number = i
        /\ issues[j].column = 0
        /\ issues[j].code_snippet = <<Strip(line)>>

\* C8: in the result of analyze_file on a .py file that was read, every line
\* that a pattern of a vulnerability category matches has a security_ issue
\* of that category, and every line that a pattern of a bug category matches
\* has a bug_ issue of that category.
C8_BothCataloguesApplied ==
    (op = "CodeAnalyzer.analyze_file" /\ IsPy(file_path) /\ file.readable
       /\ ~result.raised) =>
        \A i \in 1..Len(file.lines) :
            /\ \A c \in 1..Len(security_patterns) :
                  (\E k \in 1..Len(security_patterns[c].patterns) :
                       ReSearch(security_patterns[c].patterns[k], file.lines[i]))
                  => HasPatternIssue(result.issues,
                                     SecurityCategory(security_patterns[c].category),
                                     i, file.lines[i])
            /\ \A c \in 1..Len(bug_patterns) :
                  (\E k \in 1..Len(bug_patterns[c].patterns) :
                       ReSearch(bug_patterns[c].patterns[k], file.lines[i]))
                  => HasPatternIssue(result.issues,
                                     BugCategory(bug_patterns[c].category),
                                     i, file.lines[i])

\* the categories of a catalogue with a pattern that matches the line
MatchingCategories(catalogue, line) ==
    {c \in 1..Len(catalogue) :
        \E k \in 1..Len(catalogue[c].patterns) : ReSearch(catalogue[c].patterns[k], line)}

\* C9: the output of a pattern scan has at most one issue for a line and a
\* category, and a line that k categories match has exactly k issues.
C9_OneIssuePerLineAndCategory ==
    (op \in {"SecurityAnalyzer.analyze_file", "AdvancedBugDetector.detect_bugs"}
       /\ file.readable) =>
        LET catalogue == IF op = "SecurityAnalyzer.analyze_file"
                         THEN security_patterns ELSE bug_patterns
        IN  /\ \A i, j \in 1..Len(result.issues) :
                  (/\ result.issues[i].line_number = result.issues[j].line_number
                   /\ result.issues[i].category = result.issues[j].category) => i = j
            /\ \A n \in 1..Len(file.lines) :
                  Cardinality({i \in 1..Len(result.issues) : result.issues[i].line_number = n})
                    = Cardinality(MatchingCategories(catalogue, file.lines[n]))

\* the file was read and parsed, and the entry point returns its metrics
ParsedBy(o) ==
    /\ op = o
    /\ o \in {"CodeAnalyzer.analyze_file", "PythonASTAnalyzer.analyze_file"}
    /\ o = "CodeAnalyzer.analyze_file" => IsPy(file_path)
    /\ file.readable
    /\ file.parse.kind = "ok"

Parsed == ParsedBy("CodeAnalyzer.analyze_file") \/ ParsedBy("PythonASTAnalyzer.analyze_file")

\* the metrics records a result holds: the one of analyze_file, the ones
\* of a directory run collected so far and returned
MetricsRecords ==
    Range(result.metrics)
    \cup {all_metrics[i].value : i \in 1..Len(all_metrics)}
    \cup {dir_result.metrics[i].value : i \in 1..Len(dir_result.metrics)}

\* C11 as stated: every metrics record in a result of analyze_file or
\* analyze_directory has cyclomatic_complexity >= 1 and function_count,
\* class_count and import_count >= 0.
C11_ComplexityAtLeastOne ==
    \A m \in MetricsRecords :
        /\ m.cyclomatic_complexity >= 1
        /\ m.function_count >= 0
        /\ m.class_count >= 0
        /\ m.import_count >= 0

\* C11 as amended: every metrics record in a result has non-negative
\* function_count, class_count and import_count; its cyclomatic_complexity
\* is >= 1 when the file was read and parsed, and the record is the all-zero
\* one (cyclomatic_complexity = 0) when the file could not be read or parsed
\* or is not a .py file.
C11_ComplexityAtLeastOneWhenParsed ==
    /\ \A m \in MetricsRecords :
          /\ m.cyclomatic_complexity >= 0
          /\ m.function_count >= 0
          /\ m.class_count >= 0
          /\ m.import_count >= 0
          /\ m.cyclomatic_complexity = 0 => m = ZeroMetrics(m.file_path)
    /\ \A m \in Range(result.metrics) :
          IF Parsed THEN m.cyclomatic_complexity >= 1
          ELSE m = ZeroMetrics(file_path)

\* a parsed file with a handler in it has come back with complexity 2
C11_Witness ==
    /\ ParsedBy("CodeAnalyzer.analyze_file")
    /\ file.parse.tree = SmallModule
    /\ Len(result.metrics) = 1
    /\ result.metrics[1].cyclomatic_complexity = 2
    /\ result.metrics[1].import_count = 1

\* C12: for every content that was read and parsed, the comment lines
\* (trimmed line starts with '#') are at most lines_of_code (trimmed line
\* non-empty); comment_ratio is comment lines over lines_of_code and lies in
\* [0, 1]; with lines_of_code = 0 it is 0 and nothing is divided.
C12_CommentRatio ==
    Parsed =>
        LET m == result.metrics[1]
            comment_lines == Cardinality({i \in 1..Len(file.lines) :
                                            StartsWithHash(Strip(file.lines[i]))})
            code_lines == Cardinality({i \in 1..Len(file.lines) :
                                         Strip(file.lines[i]) # ""})
        IN  /\ m.lines_of_code = code_lines
            /\ comment_lines <= m.lines_of_code
            /\ m.comment_ratio.den > 0
            /\ 0 <= m.comment_ratio.num
            /\ m.comment_ratio.num <= m.comment_ratio.den
            /\ IF m.lines_of_code = 0
               THEN m.comment_ratio = ZeroRatio
               ELSE m.comment_ratio = [num |-> comment_lines, den |-> m.lines_of_code]

\* an indented comment and a statement: the ratio is 1/2
C12_Witness ==
    /\ Parsed
    /\ file.lines = <<"    # fix", "x = 1">>
    /\ result.metrics[1].lines_of_code = 2
    /\ result.metrics[1].comment_ratio = [num |-> 1, den |-> 2]

\* the file was read, and none of its lines has a non-empty trimmed form
NoCodeLines ==
    /\ op \in {"CodeAnalyzer.analyze_file", "PythonASTAnalyzer.analyze_file"}
    /\ op = "CodeAnalyzer.analyze_file" => IsPy(file_path)
    /\ file.readable
    /\ \A i \in 1..Len(file.lines) : Strip(file.lines[i]) = ""

\* the categories of the issues _analyze_ast emits
StructuralCategories ==
    {"unused_import", "code_quality", "best_practices", "error_handling", "documentation"}

NoStructuralIssue ==
    \A i \in 1..Len(result.issues) : result.issues[i].category \notin StructuralCategories

\* C13 as stated: a file with lines_of_code = 0 comes back with
\* comment_ratio = 0 and cyclomatic_complexity = 1, and without an issue of
\* the structural analyzer.
C13_NoCodeLinesComplexityOne ==
    NoCodeLines =>
        /\ Len(result.metrics) = 1
        /\ result.metrics[1].lines_of_code = 0
        /\ result.metrics[1].comment_ratio = ZeroRatio
        /\ result.metrics[1].cyclomatic_complexity = 1
        /\ NoStructuralIssue

\* C13 as amended: a file with lines_of_code = 0 comes back with
\* comment_ratio = 0 and without an issue of the structural analyzer; its
\* cyclomatic_complexity is 1 when the parser accepts it (then with no issue
\* at all) and 0 when the parser rejects it.
C13_NoCodeLinesParsed ==
    NoCodeLines =>
        /\ Len(result.metrics) = 1
        /\ result.metrics[1].lines_of_code = 0
        /\ result.metrics[1].comment_ratio = ZeroRatio
        /\ NoStructuralIssue
        /\ IF file.parse.kind = "ok"
           THEN /\ result.metrics[1].cyclomatic_complexity = 1
                /\ result.issues = <<>>
           ELSE result.metrics[1].cyclomatic_complexity = 0

\* a file of an empty line and a line of spaces has been analyzed
C13_Witness ==
    /\ NoCodeLines
    /\ op = "CodeAnalyzer.analyze_file"
    /\ file.lines = <<"", "   ">>
    /\ file.parse.kind = "ok"
    /\ result.metrics[1].cyclomatic_complexity = 1
    /\ result.issues = <<>>

(***************************************************************************)
(* SpecAst: a syntax tree and the functions computed from it.              *)
(***************************************************************************)
\* The node kinds of the generated trees: the five the complexity loop
\* counts, boolean operators of every size, and a conditional expression,
\* which the loop does not count.
GenNodes ==
    {Node(k) : k \in {"If", "While", "For", "AsyncFor", "ExceptHandler", "IfExp"}}
    \cup {[Node("BoolOp") EXCEPT !.nvalues = n] : n \in 2..MaxOperands}

\* the children of node i in a tree given by the parent of every node
ChildrenOf(par, i, n) ==
    LET IsChild(j) == par[j] = i
    IN  SelectSeq([j \in 1..n |-> j + 1], IsChild)

\* The tree with the nodes ns below the Module node, node i + 1 being ns[i]
\* and having the parent par[i + 1].
MkTree(ns, par) ==
    [i \in 1..(Len(ns) + 1) |->
        IF i = 1
        THEN [Node("Module") EXCEPT !.children = ChildrenOf(par, 1, Len(ns)), !.lineno = 0]
        ELSE [ns[i - 1] EXCEPT !.children = ChildrenOf(par, i, Len(ns))]]

\* the ways to give every node below the Module node a parent before it
ParentVectors(n) == {p \in [2..(n + 1) -> 1..n] : \A j \in 2..(n + 1) : p[j] < j}

\* t is a tree of at most MaxNodes nodes below the Module node
IsGenTree(t) ==
    \E n \in 0..MaxNodes :
        \E ns \in [1..n -> GenNodes] :
            \E par \in ParentVectors(n) : t = MkTree(ns, par)

\* def f(): \n  if a and b and c: ... \n  while x: ...
ExampleFunction ==
    << [Node("Module") EXCEPT !.children = <<2>>, !.lineno = 0],
       [Node("FunctionDef") EXCEPT !.children = <<3, 4>>, !.name = "f", !.nbody = 2],
       [Node("If") EXCEPT !.children = <<5>>, !.lineno = 2],
       [Node("While") EXCEPT !.lineno = 4],
       [Node("BoolOp") EXCEPT !.children = <<6, 7, 8>>, !.nvalues = 3, !.lineno = 2],
       [Node("Name") EXCEPT !.id = "a", !.lineno = 2],
       [Node("Name") EXCEPT !.id = "b", !.lineno = 2],
       [Node("Name") EXCEPT !.id = "c", !.lineno = 2] >>

\* import os / import random / def f(a, b, c, d, e, f, g, h): try:
\* x = 1 / 0 except: pass; return a  -- the nodes in the order ast.walk
\* yields them, contexts and operators left out.
ExampleModule ==
    << [Node("Module") EXCEPT !.children = <<2, 3, 4>>, !.lineno = 0],
       [Node("Import") EXCEPT !.children = <<5>>, !.names = <<"os">>, !.bound = <<"os">>, !.lineno = 1],
       [Node("Import") EXCEPT !.children = <<6>>, !.names = <<"random">>, !.bound = <<"random">>, !.lineno = 2],
       [Node("FunctionDef") EXCEPT !.children = <<7, 8, 9>>, !.name = "f",
                                   !.nbody = 2, !.nargs = 8, !.lineno = 4],
       [Node("alias") EXCEPT !.lineno = 1, !.col_offset = 7],
       [Node("alias") EXCEPT !.lineno = 2, !.col_offset = 7],
       [Node("arguments") EXCEPT !.children = <<10, 11, 12, 13, 14, 15, 16, 17>>, !.lineno = 0],
       [Node("Try") EXCEPT !.children = <<18, 19>>, !.lineno = 5, !.col_offset = 4],
       [Node("Return") EXCEPT !.children = <<20>>, !.value = 20, !.lineno = 9, !.col_offset = 4],
       [Node("arg") EXCEPT !.lineno = 4, !.col_offset = 6],
       [Node("arg") EXCEPT !.lineno = 4, !.col_offset = 9],
       [Node("arg") EXCEPT !.lineno = 4, !.col_offset = 12],
       [Node("arg") EXCEPT !.lineno = 4, !.col_offset = 15],
       [Node("arg") EXCEPT !.lineno = 4, !.col_offset = 18],
       [Node("arg") EXCEPT !.lineno = 4, !.col_offset = 21],
       [Node("arg") EXCEPT !.lineno = 4, !.col_offset = 24],
       [Node("arg") EXCEPT !.lineno = 4, !.col_offset = 27],
       [Node("Assign") EXCEPT !.children = <<21, 22>>, !.value = 22, !.lineno = 6, !.col_offset = 8],
       [Node("ExceptHandler") EXCEPT !.children = <<23>>, !.type_none = TRUE,
                                     !.lineno = 7, !.col_offset = 4],
       [Node("Name") EXCEPT !.id = "a", !.lineno = 9, !.col_offset = 11],
       [Node("Name") EXCEPT !.id = "x", !.lineno = 6, !.col_offset = 8],
       [Node("BinOp") EXCEPT !.children = <<24, 25>>, !.lineno = 6, !.col_offset = 12],
       [Node("Pass") EXCEPT !.lineno = 8, !.col_offset = 8],
       [Node("Constant") EXCEPT !.lineno = 6, !.col_offset = 12],
       [Node("Constant") EXCEPT !.lineno = 6, !.col_offset = 16] >>

\* The constants of the generated modules of literals: strings of 50, 51
\* and 120 characters that begin in the ways below, and a number.
LiteralTexts == {"plain", "http://h/", "file:///f", "httpd.conf", "TODO: x", "  fixme: y "}

LiteralLengths == {50, 51, 120}

LiteralConstants ==
    {[Node("Constant") EXCEPT !.is_str = TRUE, !.strlen = n, !.text = x] :
        n \in LiteralLengths, x \in LiteralTexts}
    \cup {Node("Constant")}

\* The module of the statements given: statement k is on line k and is the
\* expression statement of its constant (kind Expr) or assigns it to a
\* name (kind Assign, the constant at column 4).
LiteralModule(kinds, consts) ==
    LET n == Len(kinds) IN
    [i \in 1..(2 * n + 1) |->
        IF i = 1
        THEN [Node("Module") EXCEPT !.children = [k \in 1..n |-> k + 1], !.lineno = 0]
        ELSE IF i <= n + 1
        THEN [Node(kinds[i - 1]) EXCEPT !.children = <<i + n>>, !.value = i + n,
                                        !.lineno = i - 1]
        ELSE [consts[i - n - 1] EXCEPT !.lineno = i - n - 1,
                                       !.col_offset = IF kinds[i - n - 1] = "Assign" THEN 4 ELSE 0]]

\* t is a module of at most MaxLiterals such statements
IsLiteralModule(t) ==
    \E n \in 1..MaxLiterals :
        \E kinds \in [1..n -> {"Expr", "Assign"}] :
            \E consts \in [1..n -> LiteralConstants] : t = LiteralModule(kinds, consts)

\* def first(): try: pass except: pass / def second(a, ..., h): pass
TwoFunctions ==
    << [Node("Module") EXCEPT !.children = <<2, 3>>, !.lineno = 0],
       [Node("FunctionDef") EXCEPT !.children = <<4>>, !.name = "first",
                                   !.nbody = 1, !.lineno = 1],
       [Node("FunctionDef") EXCEPT !.name = "second", !.nbody = 1, !.nargs = 8,
                                   !.lineno = 7],
       [Node("Try") EXCEPT !.children = <<5>>, !.lineno = 2, !.col_offset = 4],
       [Node("ExceptHandler") EXCEPT !.type_none = TRUE, !.lineno = 4, !.col_offset = 4] >>

\* The lengths of a function's body and of the two lists of node.args that
\* hold its positional parameters: posonlyargs (before "/") and args.
BodyLengths == {50, 51}

ArgsLengths == {0, 7, 8}

PosOnlyLengths == {0, 1, 8}

\* def f(<nposonly parameters>, /, <nargs parameters>): <nbody statements>
\* as the only statement of a module; the statements and the parameters
\* are nodes no rule looks at and are left out.
FunctionModule(nbody, nargs, nposonly) ==
    << [Node("Module") EXCEPT !.children = <<2>>, !.lineno = 0],
       [Node("FunctionDef") EXCEPT !.name = "f", !.nbody = nbody, !.nargs = nargs,
                                   !.nposonly = nposonly] >>

\* The import statements of the generated modules, each with alias.name
\* and the name the statement binds (asname if there is one, else the
\* first component of a dotted name; for a from-import the imported name):
\* import os / import os.path / import numpy as np / from os import path
ImportStatements ==
    { [Node("Import") EXCEPT !.names = <<"os">>, !.bound = <<"os">>],
      [Node("Import") EXCEPT !.names = <<"os.path">>, !.bound = <<"os">>],
      [Node("Import") EXCEPT !.names = <<"numpy">>, !.bound = <<"np">>],
      [Node("ImportFrom") EXCEPT !.names = <<"path">>, !.bound = <<"path">>] }

UseKinds == {"none", "Name", "Attribute"}

UseNames == {"os", "np", "numpy", "path"}

\* The module of an import statement on line 1 and, on line 2, nothing
\* (use "none"), the expression statement `id` (use "Name") or the
\* expression statement `id.attr` (use "Attribute").
ImportModule(stmt, use, id) ==
    IF use = "none"
    THEN << [Node("Module") EXCEPT !.children = <<2>>, !.lineno = 0], stmt >>
    ELSE IF use = "Name"
    THEN << [Node("Module") EXCEPT !.children = <<2, 3>>, !.lineno = 0],
            stmt,
            [Node("Expr") EXCEPT !.children = <<4>>, !.value = 4, !.lineno = 2],
            [Node("Name") EXCEPT !.id = id, !.lineno = 2] >>
    ELSE << [Node("Module") EXCEPT !.children = <<2, 3>>, !.lineno = 0],
            stmt,
            [Node("Expr") EXCEPT !.children = <<4>>, !.value = 4, !.lineno = 2],
            [Node("Attribute") EXCEPT !.children = <<5>>, !.value = 5, !.lineno = 2],
            [Node("Name") EXCEPT !.id = id, !.lineno = 2] >>

AstPath == <<"proj", "a.py">>

AstLines == <<"# note", "x = 1">>

InitAst ==
    /\ \/ IsGenTree(tree)
       \/ IsLiteralModule(tree)
       \/ tree \in {ExampleFunction, SmallModule, ExampleModule, TwoFunctions}
       \/ \E b \in BodyLengths, a \in ArgsLengths, p \in PosOnlyLengths :
             tree = FunctionModule(b, a, p)
       \/ \E stmt \in ImportStatements, use \in UseKinds, id \in UseNames :
             tree = ImportModule(stmt, use, id)
    /\ ast_op = "none"
    /\ ast_out = NoAstOut
    /\ FileIdle
    /\ DirIdle
    /\ ScanIdle

\* analyze_file calls self._calculate_metrics(tree, file_path, content)
CallCalculateMetrics ==
    /\ ast_op' = "_calculate_metrics"
    /\ ast_out' = [issues |-> <<>>, metrics |-> <<calculate_metrics(tree, AstPath, AstLines)>>]
    /\ UNCHANGED <<tree, fileVars, dirVars, scanVars>>

\* analyze_file calls self._analyze_ast(tree, file_path, content)
CallAnalyzeAst ==
    /\ ast_op' = "_analyze_ast"
    /\ ast_out' = [issues |-> analyze_ast(tree, AstPath, AstLines), metrics |-> <<>>]
    /\ UNCHANGED <<tree, fileVars, dirVars, scanVars>>

\* analyze_file on a file that was read and parsed: both calls, and the
\* pair returned
AnalyzeParsedFile ==
    /\ ast_op' = "analyze_file"
    /\ ast_out' = [issues |-> analyze_ast(tree, AstPath, AstLines),
                   metrics |-> <<calculate_metrics(tree, AstPath, AstLines)>>]
    /\ UNCHANGED <<tree, fileVars, dirVars, scanVars>>

NextAst ==
    \/ CallCalculateMetrics
    \/ CallAnalyzeAst
    \/ AnalyzeParsedFile

SpecAst == InitAst /\ [][NextAst]_vars

RECURSIVE SumOver(_, _)
\* the sum of f[i] over the set S of indexes
SumOver(f, S) ==
    IF S = {} THEN 0
    ELSE LET i == CHOOSE x \in S : TRUE IN f[i] + SumOver(f, S \ {i})

\* C10: the cyclomatic complexity of a parsed file is 1, plus the number of
\* if, while, for, async-for and exception-handler nodes, plus N - 1 for
\* every boolean-operator node of N operands; the function with one if, one
\* while and `a and b and c` has 5.
C10_CyclomaticComplexity ==
    ast_op = "_calculate_metrics" =>
        LET branches == {i \in 1..Len(tree) :
                           tree[i].kind \in {"If", "While", "For", "AsyncFor", "ExceptHandler"}}
            boolops  == {i \in 1..Len(tree) : tree[i].kind = "BoolOp"}
            extra    == [i \in 1..Len(tree) |-> tree[i].nvalues - 1]
        IN  /\ ast_out.metrics[1].cyclomatic_complexity
                 = 1 + Cardinality(branches) + SumOver(extra, boolops)
            /\ tree = ExampleFunction => ast_out.metrics[1].cyclomatic_complexity = 5

\* the metrics of the example function have been computed
C10_Witness ==
    /\ ast_op = "_calculate_metrics"
    /\ tree = ExampleFunction
    /\ ast_out.metrics[1].cyclomatic_complexity = 5

\* the issues of the structural analyzer with the severity and category
IssuesWith(issues, severity, category) ==
    {i \in 1..Len(issues) : issues[i].severity = severity /\ issues[i].category = category}

\* C14: on the module with two imports never referenced again and one
\* function of 8 positional parameters holding a try with a bare handler,
\* the structural analyzer emits exactly four issues: low / unused_import
\* for os and for random, one medium / code_quality for the parameters and
\* one high / error_handling; function_count = 1, class_count = 0 and
\* import_count = 2.
C14_ExampleModule ==
    (tree = ExampleModule /\ ast_op = "analyze_file") =>
        LET issues == ast_out.issues
            m == ast_out.metrics[1]
        IN  /\ Len(issues) = 4
            /\ Cardinality(IssuesWith(issues, "low", "unused_import")) = 2
            /\ \E i \in 1..4 : issues[i].message = <<"Unused import: ", "os">>
            /\ \E i \in 1..4 : issues[i].message = <<"Unused import: ", "random">>
            /\ Cardinality(IssuesWith(issues, "medium", "code_quality")) = 1
            /\ \A i \in IssuesWith(issues, "medium", "code_quality") :
                  issues[i].message = <<"Function '", "f", "' has too many parameters (", "8", ")">>
            /\ Cardinality(IssuesWith(issues, "high", "error_handling")) = 1
            /\ m.function_count = 1
            /\ m.class_count = 0
            /\ m.import_count = 2

\* the example module has been analyzed
C14_Witness ==
    /\ tree = ExampleModule
    /\ ast_op = "analyze_file"
    /\ Len(ast_out.issues) = 4
    /\ ast_out.metrics[1].function_count = 1

\* the best_practices issues at the position of node i
LongStringIssuesAt(i) ==
    {j \in 1..Len(ast_out.issues) :
        /\ ast_out.issues[j].category = "best_practices"
        /\ ast_out.issues[j].line_number = tree[i].lineno
        /\ ast_out.issues[j].column = tree[i].col_offset}

\* the string literals of the tree
StringLiterals == {i \in 1..Len(tree) : tree[i].kind = "Constant" /\ tree[i].is_str}

\* C15: a string literal that does not start with http, https or file://
\* gets exactly one best_practices issue when it is 51 characters or longer
\* and none when it is 50 or shorter; a literal that starts with one of the
\* prefixes gets none; and there is no best_practices issue besides these.
C15_LongStringLiteral ==
    ast_op \in {"_analyze_ast", "analyze_file"} =>
        /\ \A i \in StringLiterals :
              Cardinality(LongStringIssuesAt(i)) =
                 IF StartsWithUrl(tree[i].text) THEN 0
                 ELSE IF tree[i].strlen >= 51 THEN 1
                 ELSE 0
        /\ Cardinality({j \in 1..Len(ast_out.issues) :
                          ast_out.issues[j].category = "best_practices"})
             = Cardinality({i \in StringLiterals :
                             tree[i].strlen >= 51 /\ ~StartsWithUrl(tree[i].text)})

\* a literal of 51 characters has its issue, and the literal of 50
\* characters on the line before has none
C15_Witness ==
    /\ ast_op = "_analyze_ast"
    /\ Len(tree) = 5
    /\ tree[2].kind = "Expr" /\ tree[3].kind = "Assign"
    /\ StringLiterals = {4, 5}
    /\ tree[4].strlen = 50 /\ tree[4].text = "plain"
    /\ tree[5].strlen = 51 /\ tree[5].text = "plain"
    /\ Cardinality(LongStringIssuesAt(5)) = 1
    /\ LongStringIssuesAt(4) = {}

RECURSIVE PreOrderFrom(_, _)
\* the nodes in depth-first pre-order: a node, then its subtrees in order
PreOrderFrom(t, todo) ==
    IF todo = <<>> THEN <<>>
    ELSE <<Head(todo)>> \o PreOrderFrom(t, t[Head(todo)].children \o Tail(todo))

PreOrder(t) == PreOrderFrom(t, <<1>>)

\* C16: the issues of the structural analyzer come in depth-first pre-order
\* of the nodes that trigger them: the returned list is the issues of the
\* first node in that order, then those of the second, and so on (the issue
\* of a handler inside the first function before the issue of the second
\* function).
C16_DepthFirstOrder ==
    ast_op \in {"_analyze_ast", "analyze_file"} =>
        ast_out.issues =
            Concat([i \in 1..Len(PreOrder(tree)) |->
                      NodeIssues(tree, AstPath, PreOrder(tree)[i])])

\* C21: every issue the structural analyzer emits for a tree node carries a
\* 1-based position, line_number >= 1 and column >= 1 (0 is kept for
\* file-level issues that have no line).
C21_NodePositionsOneBased ==
    ast_op \in {"_analyze_ast", "analyze_file"} =>
        \A i \in 1..Len(ast_out.issues) :
            /\ ast_out.issues[i].line_number >= 1
            /\ ast_out.issues[i].column >= 1

\* the issues of the list at the node's position whose message has the
\* given piece after the function's name
FunctionIssues(node, piece) ==
    {i \in 1..Len(ast_out.issues) :
       /\ ast_out.issues[i].category = "code_quality"
       /\ ast_out.issues[i].severity = "medium"
       /\ ast_out.issues[i].line_number = node.lineno
       /\ Len(ast_out.issues[i].message) >= 3
       /\ ast_out.issues[i].message[2] = node.name
       /\ ast_out.issues[i].message[3] = piece}

\* C25: the two function rules fire independently on a function
\* declaration: one 'too long' issue if and only if it has more than 50
\* body statements, one 'too many parameters' issue if and only if it has
\* more than 7 positional parameters; two issues with both, none at
\* exactly 50 and exactly 7.
C25_FunctionRules ==
    ast_op \in {"_analyze_ast", "analyze_file"} =>
        \A n \in 1..Len(tree) :
            tree[n].kind = "FunctionDef" =>
                /\ Cardinality(FunctionIssues(tree[n], "' is too long (")) =
                      (IF tree[n].nbody > 50 THEN 1 ELSE 0)
                /\ Cardinality(FunctionIssues(tree[n], "' has too many parameters (")) =
                      (IF tree[n].nposonly + tree[n].nargs > 7 THEN 1 ELSE 0)

\* the name is referred to in the tree: a Name node has it as its id (the
\* object of an attribute access is such a node)
ReferredTo(name) ==
    \E n \in 1..Len(tree) : tree[n].kind = "Name" /\ tree[n].id = name

\* the unused_import issues of the list for alias a of the import node
UnusedImportIssues(node, a) ==
    {i \in 1..Len(ast_out.issues) :
       /\ ast_out.issues[i].category = "unused_import"
       /\ ast_out.issues[i].severity = "low"
       /\ ast_out.issues[i].line_number = node.lineno
       /\ Len(ast_out.issues[i].message) = 2
       /\ ast_out.issues[i].message[2] \in {node.names[a], node.bound[a]}}

\* C26: an import declaration (plain, dotted, aliased or from-import) has
\* a low/unused_import issue for an imported name if and only if the name
\* is referred to nowhere else in the tree, as a plain name or as the
\* object of an attribute access.
C26_UnusedImportIff ==
    ast_op \in {"_analyze_ast", "analyze_file"} =>
        \A n \in 1..Len(tree) :
            tree[n].kind \in {"Import", "ImportFrom"} =>
                \A a \in 1..Len(tree[n].names) :
                    (UnusedImportIssues(tree[n], a) # {}) <=> ~ReferredTo(tree[n].bound[a])

\* the string values of the model that, trimmed, start with TODO, FIXME,
\* HACK or XXX in any case, and what trimming leaves of each
MarkedTexts == {"TODO: x", "  fixme: y "}

Trimmed(text) == IF text = "  fixme: y " THEN "fixme: y" ELSE text

\* the expression statements of the tree that are one string literal
StringStatements ==
    {n \in 1..Len(tree) :
       /\ tree[n].kind = "Expr"
       /\ tree[n].value # 0
       /\ tree[tree[n].value].kind = "Constant"
       /\ tree[tree[n].value].is_str}

\* the documentation issues of the list at the statement's position
DocumentationIssuesAt(n) ==
    {j \in 1..Len(ast_out.issues) :
       /\ ast_out.issues[j].category = "documentation"
       /\ ast_out.issues[j].line_number = tree[n].lineno
       /\ ast_out.issues[j].column = tree[n].col_offset}

\* C27: a statement that is one string literal whose trimmed text starts
\* with TODO, FIXME, HACK or XXX, in any case, has exactly one
\* info/documentation issue, whose message carries the trimmed text; when
\* the literal is longer than 50 characters its best_practices issue is
\* there as well; and no other node has a documentation issue.
C27_TodoMarkers ==
    ast_op \in {"_analyze_ast", "analyze_file"} =>
        /\ \A n \in StringStatements :
              LET lit == tree[tree[n].value] IN
              lit.text \in MarkedTexts =>
                 /\ Cardinality(DocumentationIssuesAt(n)) = 1
                 /\ \A j \in DocumentationIssuesAt(n) :
                       /\ ast_out.issues[j].severity = "info"
                       /\ ast_out.issues[j].message = <<"Code comment: ", Trimmed(lit.text)>>
                 /\ lit.strlen > 50 =>
                       Cardinality(LongStringIssuesAt(tree[n].value)) = 1
        /\ Cardinality({j \in 1..Len(ast_out.issues) :
                          ast_out.issues[j].category = "documentation"})
             = Cardinality({n \in StringStatements :
                              tree[tree[n].value].text \in MarkedTexts})

\* the statement "  fixme: y ..." of 51 characters has both issues, and the
\* same literal assigned to a name on the next line has no documentation
\* issue
C27_Witness ==
    /\ ast_op = "_analyze_ast"
    /\ Len(tree) = 5
    /\ tree[2].kind = "Expr" /\ tree[3].kind = "Assign"
    /\ tree[4].text = "  fixme: y " /\ tree[4].strlen = 51
    /\ tree[5].text = "  fixme: y " /\ tree[5].strlen = 51
    /\ Cardinality(DocumentationIssuesAt(2)) = 1
    /\ Cardinality(LongStringIssuesAt(4)) = 1
    /\ DocumentationIssuesAt(3) = {}
    /\ Len(ast_out.issues) = 3

(***************************************************************************)
(* SpecDir: CodeAnalyzer.analyze_directory on the tree                     *)
(*     <directory_path>/a.py                                               *)
(*     <directory_path>/c.js                                               *)
(*     <directory_path>/build/x.py                                         *)
(*     <directory_path>/sub/d.py                                           *)
(* The loop over os.walk is followed step by step: one step per directory  *)
(* os.walk yields and one per file of the inner loop.                      *)
(***************************************************************************)
\* FilePatternsConfig.include
ConfigInclude ==
    << <<"*.py">>, <<"*.js">>, <<"*.ts">>, <<"*.jsx">>, <<"*.tsx">>, <<"*.java">>,
       <<"*.cpp">>, <<"*.c">>, <<"*.cs">>, <<"*.go">>, <<"*.rs">>, <<"*.php">>, <<"*.rb">> >>

\* FilePatternsConfig.exclude
ConfigExclude ==
    << <<"*", "node_modules", "*">>, <<"*", "venv", "*">>, <<"*", "env", "*">>,
       <<"*", ".git", "*">>, <<"*", "__pycache__", "*">>, <<"*", "build", "*">>,
       <<"*", "dist", "*">>, <<"*", "target", "*">> >>

\* the default of include_patterns in analyze_directory
DefaultInclude == << <<"*.py">> >>

\* the default of exclude_patterns in analyze_directory
DefaultExclude ==
    << <<"*", "__pycache__", "*">>, <<"*", "venv", "*">>, <<"*", "node_modules", "*">> >>

\* include_patterns after the `is None` test
Include == IF include_patterns.given THEN include_patterns.patterns ELSE DefaultInclude

\* exclude_patterns after the `is None` test
Exclude == IF exclude_patterns.given THEN exclude_patterns.patterns ELSE DefaultExclude

\* ConfigManager.should_analyze_file(file_path) with the given patterns
should_analyze_file(fp, include, exclude) ==
    IF ~\E i \in 1..Len(include) : PathMatch(fp, include[i]) THEN FALSE
    ELSE IF \E i \in 1..Len(exclude) : PathMatch(fp, exclude[i]) THEN FALSE
    ELSE TRUE

\* The directory listing os.walk gets for a directory, by the path of the
\* directory below directory_path.
Listing(rel) ==
    CASE rel = <<>> -> [dirs |-> <<"build", "sub">>, files |-> <<"a.py", "c.js">>]
      [] rel = <<"build">> -> [dirs |-> <<>>, files |-> <<"x.py">>]
      [] rel = <<"sub">> -> [dirs |-> <<>>, files |-> <<"d.py">>]

\* the regular files of the tree, by their path below directory_path
TreeFiles == {<<"a.py">>, <<"c.js">>, <<"build", "x.py">>, <<"sub", "d.py">>}

\* the path of an entry below directory_path
Rel(path) == SubSeq(path, Len(directory_path) + 1, Len(path))

\* The test of the list comprehension that rewrites dirs: d is kept unless
\* Path(root) / d is one of the parents of an exclude pattern read as a path.
KeepDir(root, d, exclude) ==
    ~\E i \in 1..Len(exclude) : Join(root, d) \in Parents(exclude[i])

\* A dict: the sequence of its items in insertion order.
DictKeys(d) == {d[i].key : i \in 1..Len(d)}

DictGet(d, k) == (CHOOSE i \in 1..Len(d) : d[i].key = k)

\* d[k] = v
DictSet(d, k, v) ==
    IF k \in DictKeys(d)
    THEN [i \in 1..Len(d) |-> IF d[i].key = k THEN [key |-> k, value |-> v] ELSE d[i]]
    ELSE Append(d, [key |-> k, value |-> v])

\* the files of the model's trees
OkFile == ReadableFile(<<"x = 1", "">>, ParseOk(EmptyModule))

FlaggedFile == ReadableFile(<<"cursor.execute('SELECT %s' % uid)", "">>, ParseOk(SmallModule))

SyntaxErrorInside == ReadableFile(<<"x = 1">>, ParseSyntaxError(SomeInt(1), SomeInt(3)))

SyntaxErrorBeyond == ReadableFile(<<"x = 1">>, ParseSyntaxError(SomeInt(2), NoneInt))

DirFiles == {UnreadableFile, OkFile, FlaggedFile, SyntaxErrorInside, SyntaxErrorBeyond}

InitDir ==
    /\ directory_path \in {<<"proj">>, <<"*">>}
    /\ include_patterns \in {NoPatterns, Patterns(ConfigInclude)}
    /\ exclude_patterns \in {NoPatterns, Patterns(ConfigExclude)}
    /\ fs \in [TreeFiles -> DirFiles]
    /\ pc = "idle"
    /\ walk_stack = <<>>
    /\ walk_root = <<>>
    /\ walk_files = <<>>
    /\ all_issues = <<>>
    /\ all_metrics = <<>>
    /\ opened = {}
    /\ visited = <<>>
    /\ dir_result = NoDirResult
    /\ max_files_per_review \in
          IF include_patterns.given /\ exclude_patterns.given
          THEN {1, 2, DefaultMaxFiles}
          ELSE {DefaultMaxFiles}
    /\ files_to_review = <<>>
    /\ report = NoReport
    /\ FileIdle
    /\ AstIdle
    /\ ScanIdle

\* analyze_directory is entered: all_issues = [], all_metrics = {}, and
\* os.walk(directory_path) is created.
EnterAnalyzeDirectory ==
    /\ pc = "idle"
    /\ pc' = "walk"
    /\ walk_stack' = <<directory_path>>
    /\ walk_root' = <<>>
    /\ walk_files' = <<>>
    /\ all_issues' = <<>>
    /\ all_metrics' = <<>>
    /\ UNCHANGED <<directory_path, include_patterns, exclude_patterns, fs,
                   max_files_per_review, files_to_review, report,
                   opened, visited, dir_result, fileVars, astVars, scanVars>>

\* os.walk yields the next (root, dirs, files); the loop body rewrites dirs
\* in place, and os.walk will descend into the directories left, in order,
\* before the ones it had still to visit.
WalkYield ==
    /\ pc = "walk"
    /\ walk_files = <<>>
    /\ walk_stack # <<>>
    /\ LET root == Head(walk_stack)
           ls   == Listing(Rel(root))
           Keep(d) == KeepDir(root, d, Exclude)
           dirs == SelectSeq(ls.dirs, Keep)
       IN  /\ walk_root' = root
           /\ walk_files' = ls.files
           /\ walk_stack' = [i \in 1..Len(dirs) |-> Join(root, dirs[i])] \o Tail(walk_stack)
    /\ UNCHANGED <<directory_path, include_patterns, exclude_patterns, fs,
                   max_files_per_review, files_to_review, report, pc,
                   all_issues, all_metrics, opened, visited, dir_result,
                   fileVars, astVars, scanVars>>

\* VisitFile with the issues of the file put into the list after its
\* first element instead of at its end.
VisitFile_Interleaves ==
    /\ pc = "walk"
    /\ walk_files # <<>>
    /\ LET fp == Join(walk_root, Head(walk_files))
           r  == CodeAnalyzer_analyze_file(fp, fs[Rel(fp)])
       IN  /\ visited' = Append(visited, fp)
           /\ walk_files' = Tail(walk_files)
           /\ IF \E i \in 1..Len(Include) : PathMatch(fp, Include[i])
              THEN /\ opened' = IF r.opens > 0 THEN opened \cup {fp} ELSE opened
                   /\ IF r.raised
                      THEN /\ pc' = "raised"
                           /\ UNCHANGED <<all_issues, all_metrics>>
                      ELSE /\ pc' = pc
                           /\ all_issues' = IF all_issues = <<>> THEN r.issues
                                          ELSE <<Head(all_issues)>> \o r.issues \o Tail(all_issues)
                           /\ all_metrics' = DictSet(all_metrics, fp, r.metrics[1])
              ELSE UNCHANGED <<pc, opened, all_issues, all_metrics>>
    /\ UNCHANGED <<directory_path, include_patterns, exclude_patterns, fs,
                   max_files_per_review, files_to_review, report,
                   walk_stack, walk_root, dir_result, fileVars, astVars, scanVars>>

\* One iteration of `for file in files`: the include test, and for a file
\* that passes it analyze_file and the merge of its result.  An exception
\* that leaves analyze_file leaves analyze_directory.
VisitFile ==
    /\ pc = "walk"
    /\ walk_files # <<>>
    /\ LET fp == Join(walk_root, Head(walk_files))
           r  == CodeAnalyzer_analyze_file(fp, fs[Rel(fp)])
       IN  /\ visited' = Append(visited, fp)
           /\ walk_files' = Tail(walk_files)
           /\ IF \E i \in 1..Len(Include) : PathMatch(fp, Include[i])
              THEN /\ opened' = IF r.opens > 0 THEN opened \cup {fp} ELSE opened
                   /\ IF r.raised
                      THEN /\ pc' = "raised"
                           /\ UNCHANGED <<all_issues, all_metrics>>
                      ELSE /\ pc' = pc
                           /\ all_issues' = all_issues \o r.issues
                           /\ all_metrics' = DictSet(all_metrics, fp, r.metrics[1])
              ELSE UNCHANGED <<pc, opened, all_issues, all_metrics>>
    /\ UNCHANGED <<directory_path, include_patterns, exclude_patterns, fs,
                   max_files_per_review, files_to_review, report,
                   walk_stack, walk_root, dir_result, fileVars, astVars, scanVars>>

\* ReturnAnalyzeDirectory with total_files counting every file the loop
\* looked at, analysed or not.
ReturnAnalyzeDirectory_CountsVisited ==
    /\ pc = "walk"
    /\ walk_files = <<>>
    /\ walk_stack = <<>>
    /\ pc' = "done"
    /\ dir_result' = [issues |-> all_issues, metrics |-> all_metrics,
                      total_files |-> Len(visited),
                      total_issues |-> Len(all_issues)]
    /\ UNCHANGED <<directory_path, include_patterns, exclude_patterns, fs,
                   max_files_per_review, files_to_review, report,
                   walk_stack, walk_root, walk_files, all_issues, all_metrics,
                   opened, visited, fileVars, astVars, scanVars>>

\* os.walk is exhausted: the dictionary is returned.
ReturnAnalyzeDirectory ==
    /\ pc = "walk"
    /\ walk_files = <<>>
    /\ walk_stack = <<>>
    /\ pc' = "done"
    /\ dir_result' = [issues |-> all_issues, metrics |-> all_metrics,
                      total_files |-> Len(all_metrics),
                      total_issues |-> Len(all_issues)]
    /\ UNCHANGED <<directory_path, include_patterns, exclude_patterns, fs,
                   max_files_per_review, files_to_review, report,
                   walk_stack, walk_root, walk_files, all_issues, all_metrics,
                   opened, visited, fileVars, astVars, scanVars>>

\* xs[:n] for n >= 0
Take(xs, n) == SubSeq(xs, 1, IF n < Len(xs) THEN n ELSE Len(xs))

\* The analyze command, after analyze_directory has returned to it (it
\* passes both pattern lists of the configuration):
\* files_to_review = list(results['metrics'].keys())[:max_files_per_review]
LimitFiles ==
    /\ pc = "done"
    /\ include_patterns.given
    /\ exclude_patterns.given
    /\ pc' = "limited"
    /\ files_to_review' =
          Take([i \in 1..Len(dir_result.metrics) |-> dir_result.metrics[i].key],
               max_files_per_review)
    /\ UNCHANGED <<directory_path, include_patterns, exclude_patterns, fs,
                   max_files_per_review, report, walk_stack, walk_root, walk_files,
                   all_issues, all_metrics, opened, visited, dir_result,
                   fileVars, astVars, scanVars>>

\* ReportGenerator.generate_report(files_analyzed, issues_by_file,
\* metrics_by_file, ai_reviews); ai_reviews, analysis_time and timestamp
\* are left out.
generate_report(files_analyzed, issues_by_file, metrics_by_file) ==
    [files_analyzed |-> files_analyzed,
     issues_by_file |-> issues_by_file,
     metrics_by_file |-> metrics_by_file,
     total_issues |-> LET RECURSIVE Sum(_)
                          Sum(d) == IF d = <<>> THEN 0
                                    ELSE Len(Head(d).value) + Sum(Tail(d))
                      IN  Sum(issues_by_file),
     total_files |-> Len(files_analyzed)]

\* The analyze command builds the report of a directory:
\* generate_report(files_to_review,
\*                 {fp: [the issues of results['issues'] with file_path fp]
\*                  for fp in files_to_review},
\*                 results['metrics'], ai_reviews)
GenerateReport ==
    /\ pc = "limited"
    /\ pc' = "reported"
    /\ report' =
          generate_report(
            files_to_review,
            [i \in 1..Len(files_to_review) |->
               [key |-> files_to_review[i],
                value |-> LET IsOf(x) == x.file_path = files_to_review[i]
                          IN  SelectSeq(dir_result.issues, IsOf)]],
            dir_result.metrics)
    /\ UNCHANGED <<directory_path, include_patterns, exclude_patterns, fs,
                   max_files_per_review, files_to_review, walk_stack, walk_root,
                   walk_files, all_issues, all_metrics, opened, visited, dir_result,
                   fileVars, astVars, scanVars>>

NextDir ==
    \/ EnterAnalyzeDirectory
    \/ WalkYield
    \/ VisitFile
    \/ ReturnAnalyzeDirectory
    \/ LimitFiles
    \/ GenerateReport

SpecDir == InitDir /\ [][NextDir]_vars

\* the regular files of the tree, by their full path
AbsFiles == {directory_path \o rel : rel \in TreeFiles}

IncludeMatches(fp) == \E i \in 1..Len(Include) : PathMatch(fp, Include[i])

ExcludeMatches(fp) == \E i \in 1..Len(Exclude) : PathMatch(fp, Exclude[i])

\* the include-matching files of the tree, and the unreadable ones of them
Matching == {fp \in AbsFiles : IncludeMatches(fp)}

UnreadableMatching == {fp \in Matching : ~fs[Rel(fp)].readable}

\* the issues of a list that belong to the file
IssuesOf(issues, fp) == {i \in 1..Len(issues) : issues[i].file_path = fp}

\* C3: a run over N include-matching files, exactly one of them unreadable
\* (a .py file, and no file of the tree excluded), always completes, with
\* total_files = N, an all-zero metrics entry and an analysis_error issue
\* for the unreadable file, and the metrics of its analysis for every other
\* file, the ones visited after the unreadable one included.
C3_OneUnreadableFileOfN ==
    (/\ pc # "idle"
     /\ Cardinality(UnreadableMatching) = 1
     /\ \A fp \in UnreadableMatching : IsPy(fp)
     /\ \A fp \in Matching : ~ExcludeMatches(fp)) =>
        /\ pc # "raised"
        /\ pc = "done" =>
              /\ dir_result.total_files = Cardinality(Matching)
              /\ DictKeys(dir_result.metrics) = Matching
              /\ \A fp \in UnreadableMatching :
                    /\ dir_result.metrics[DictGet(dir_result.metrics, fp)].value = ZeroMetrics(fp)
                    /\ \E i \in IssuesOf(dir_result.issues, fp) :
                          dir_result.issues[i].category = "analysis_error"
              /\ \A fp \in Matching \ UnreadableMatching :
                    dir_result.metrics[DictGet(dir_result.metrics, fp)].value
                      = CodeAnalyzer_analyze_file(fp, fs[Rel(fp)]).metrics[1]

\* A subdirectory matches an exclude glob when its path matches the glob
\* without the final "/*" (build/ under "*/build/*").
DirExcluded(d) ==
    \E i \in 1..Len(Exclude) :
        /\ Len(Exclude[i]) >= 2
        /\ Exclude[i][Len(Exclude[i])] = "*"
        /\ PathMatch(d, SubSeq(Exclude[i], 1, Len(Exclude[i]) - 1))

Under(fp, d) == Len(fp) > Len(d) /\ SubSeq(fp, 1, Len(d)) = d

\* the subdirectories of the tree, by their full path
AbsDirs == {Join(directory_path, "build"), Join(directory_path, "sub")}

\* C4: a subdirectory whose path matches an exclude glob is pruned before
\* descent: no file under it is reached or opened, and none has an issue or
\* a metrics entry.
C4_ExcludedDirectoryPruned ==
    \A d \in AbsDirs : DirExcluded(d) =>
        \A fp \in AbsFiles : Under(fp, d) =>
            /\ fp \notin Range(visited)
            /\ fp \notin opened
            /\ fp \notin DictKeys(all_metrics)
            /\ IssuesOf(all_issues, fp) = {}

\* C5: a file is analyzed (opened, or given a metrics entry) only if its
\* path matches an include glob and no exclude glob.
C5_AnalyzedOnlyIfIncludedAndNotExcluded ==
    \A fp \in AbsFiles :
        (fp \in opened \/ fp \in DictKeys(all_metrics)) =>
            should_analyze_file(fp, Include, Exclude)

\* C18: a file that matches an include glob and whose suffix is not .py is
\* never opened and has no issue; once the loop has reached it, it has an
\* all-zero metrics entry under its path; and the dictionary returned has
\* that entry and counts it in total_files.
C18_UnrecognizedExtension ==
    \A fp \in AbsFiles :
        (IncludeMatches(fp) /\ ~IsPy(fp)) =>
            /\ fp \notin opened
            /\ IssuesOf(all_issues, fp) = {}
            /\ fp \in Range(visited) =>
                  /\ fp \in DictKeys(all_metrics)
                  /\ all_metrics[DictGet(all_metrics, fp)].value = ZeroMetrics(fp)
            /\ pc = "done" =>
                  /\ fp \in DictKeys(dir_result.metrics)
                  /\ dir_result.metrics[DictGet(dir_result.metrics, fp)].value = ZeroMetrics(fp)
                  /\ IssuesOf(dir_result.issues, fp) = {}
                  /\ dir_result.total_files = Cardinality(DictKeys(dir_result.metrics))

\* a run that included *.js has returned: c.js has its all-zero entry and
\* is one of the four files counted
C18_Witness ==
    /\ pc = "done"
    /\ directory_path = <<"proj">>
    /\ include_patterns.given
    /\ fs[<<"c.js">>] = FlaggedFile
    /\ <<"proj", "c.js">> \in DictKeys(dir_result.metrics)
    /\ <<"proj", "c.js">> \notin opened
    /\ dir_result.total_files = 4

\* C19: in a run of the analyze command under the cap max_files_per_review,
\* the list of files is cut to the cap before any file is analyzed: at no
\* moment have more files than the cap been opened or given a metrics
\* entry.
C19_CapBeforeDispatch ==
    (include_patterns.given /\ exclude_patterns.given) =>
        /\ Cardinality(opened) <= max_files_per_review
        /\ Len(all_metrics) <= max_files_per_review
        /\ Len(dir_result.metrics) <= max_files_per_review

\* C24: in the dictionary analyze_directory returns, every issue belongs to
\* one analyzed file (its file_path is a key of metrics), the record under
\* key p has file_path = p, every analyzed file has exactly one record,
\* total_files is the number of records and total_issues the length of the
\* issue list.
C24_ResultConsistent ==
    pc \in {"done", "limited", "reported"} =>
        /\ \A i \in 1..Len(dir_result.issues) :
              dir_result.issues[i].file_path \in DictKeys(dir_result.metrics)
        /\ \A i \in 1..Len(dir_result.metrics) :
              dir_result.metrics[i].value.file_path = dir_result.metrics[i].key
        /\ \A fp \in Range(visited) :
              IncludeMatches(fp) =>
                 Cardinality({i \in 1..Len(dir_result.metrics) :
                                dir_result.metrics[i].key = fp}) = 1
        /\ dir_result.total_files = Len(dir_result.metrics)
        /\ dir_result.total_files = Cardinality(DictKeys(dir_result.metrics))
        /\ dir_result.total_issues = Len(dir_result.issues)

\* a run has returned three or more records and issues of two files, with
\* a file of the tree left out
C24_Witness ==
    /\ pc = "done"
    /\ dir_result.total_files >= 3
    /\ dir_result.total_files < Len(visited)
    /\ \E i, j \in 1..Len(dir_result.issues) :
          dir_result.issues[i].file_path # dir_result.issues[j].file_path

\* the issues of the list that belong to the file, in the order of the list
BlockOf(issues, fp) ==
    LET IsOf(x) == x.file_path = fp IN SelectSeq(issues, IsOf)

\* the issues of the files form contiguous blocks, each the list
\* analyze_file returned for its file, and each file with an issue has its
\* metrics entry
Merged(issues, metrics) ==
    /\ \A i, k \in 1..Len(issues) :
          (i < k /\ issues[i].file_path = issues[k].file_path) =>
             \A j \in i..k : issues[j].file_path = issues[i].file_path
    /\ \A fp \in AbsFiles :
          BlockOf(issues, fp) # <<>> =>
             /\ BlockOf(issues, fp) = CodeAnalyzer_analyze_file(fp, fs[Rel(fp)]).issues
             /\ fp \in DictKeys(metrics)

\* C28: the per-file results are merged without interleaving: in the
\* aggregate, while the run goes on and in the dictionary returned, all the
\* issues of a file form one contiguous block in the order analyze_file
\* produced them, and no file has issues in the aggregate without its
\* metrics entry.
C28_MergedWithoutInterleaving ==
    /\ pc \in {"walk", "raised"} => Merged(all_issues, all_metrics)
    /\ pc \in {"done", "limited", "reported"} => Merged(dir_result.issues, dir_result.metrics)

\* a run has returned the issues of two files, four of a.py and then the
\* one of the unreadable sub/d.py
C28_Witness ==
    /\ pc = "done"
    /\ directory_path = <<"proj">>
    /\ Len(BlockOf(dir_result.issues, <<"proj", "a.py">>)) = 4
    /\ Len(BlockOf(dir_result.issues, <<"proj", "sub", "d.py">>)) = 2
    /\ dir_result.issues[1].file_path = <<"proj", "a.py">>
    /\ dir_result.issues[5].file_path = <<"proj", "sub", "d.py">>

\* C30: the report the analyze command builds for a directory is about one
\* set of files: metrics_by_file and issues_by_file have exactly the files
\* of files_analyzed as keys, total_files is their number and total_issues
\* the number of the issues of these files, whether the analysed files are
\* fewer than the cap max_files_per_review, as many, or more.
C30_ReportConsistent ==
    pc = "reported" =>
        /\ DictKeys(report.metrics_by_file) = Range(report.files_analyzed)
        /\ DictKeys(report.issues_by_file) = Range(report.files_analyzed)
        /\ report.total_files = Cardinality(Range(report.files_analyzed))
        /\ report.total_issues =
              Cardinality({i \in 1..Len(dir_result.issues) :
                             dir_result.issues[i].file_path \in Range(report.files_analyzed)})

(***************************************************************************)
(* SpecScan: SecurityAnalyzer and AdvancedBugDetector objects, each with   *)
(* the catalogue its constructor stored on it, scanning one file whose     *)
(* content stays as it is.                                                 *)
(***************************************************************************)
\* SecurityAnalyzer.__init__: self.security_patterns = {...}
NewSecurityAnalyzer == [class |-> "SecurityAnalyzer", patterns |-> security_patterns]

\* AdvancedBugDetector.__init__: self.bug_patterns = {...}
NewAdvancedBugDetector == [class |-> "AdvancedBugDetector", patterns |-> bug_patterns]

\* The lines of the files scanned: for every category of the two
\* catalogues a line that a pattern of it matches, and a line none matches.
ScanLines ==
    { "cursor.execute('SELECT %s' % uid)",
      "    OS.SYSTEM(cmd)  ",
      "eval(random.choice(xs))",
      "f = open('../etc/passwd')",
      "password = 'hunter2'",
      "if x is None:",
      "while True:",
      "n = int('42')",
      "threading.Thread(target=f)",
      "x = 1" }

ScanContents == UNION {[1..n -> ScanLines] : n \in 1..MaxLines}

\* one file for every content; the scanners do not parse
ScanFiles ==
    {UnreadableFile}
    \cup {ReadableFile(c, CHOOSE p \in ast_parse(c) : TRUE) : c \in ScanContents}

InitScan ==
    /\ file_path = <<"proj", "a.py">>
    /\ file \in ScanFiles
    /\ op = "none"
    /\ result = NoResult
    /\ instances = <<>>
    /\ scan_log = <<>>
    /\ AstIdle
    /\ DirIdle

\* SecurityAnalyzer() or AdvancedBugDetector() is constructed
Construct ==
    /\ Len(instances) < MaxInstances
    /\ \E self \in {NewSecurityAnalyzer, NewAdvancedBugDetector} :
          instances' = Append(instances, self)
    /\ UNCHANGED <<scan_log, fileVars, astVars, dirVars>>

\* SecurityAnalyzerScan with the list of issues kept on the object: a scan
\* returns what the scans of the object before it found, and its own.
SecurityAnalyzerScan_KeepsIssues(k) ==
    /\ k \in 1..Len(instances)
    /\ instances[k].class = "SecurityAnalyzer"
    /\ Len(scan_log) < MaxScans
    /\ LET self == instances[k]
           IsOwn(e) == e.instance = k
           before == SelectSeq(scan_log, IsOwn)
           kept == IF before = <<>> THEN <<>> ELSE before[Len(before)].issues
           issues == IF file.readable
                     THEN SecurityScanWith(self.patterns, file_path, file.lines)
                     ELSE SecurityAnalyzer_analyze_file(file_path, file).issues
       IN  scan_log' = Append(scan_log, [instance |-> k, class |-> self.class,
                                         issues |-> kept \o issues])
    /\ UNCHANGED <<instances, fileVars, astVars, dirVars>>

\* instances[k].analyze_file(file_path) on a SecurityAnalyzer: issues = [],
\* the file is opened and read, and the loops run over self.security_patterns
SecurityAnalyzerScan(k) ==
    /\ k \in 1..Len(instances)
    /\ instances[k].class = "SecurityAnalyzer"
    /\ Len(scan_log) < MaxScans
    /\ LET self == instances[k]
           issues == IF file.readable
                     THEN SecurityScanWith(self.patterns, file_path, file.lines)
                     ELSE SecurityAnalyzer_analyze_file(file_path, file).issues
       IN  scan_log' = Append(scan_log, [instance |-> k, class |-> self.class,
                                         issues |-> issues])
    /\ UNCHANGED <<instances, fileVars, astVars, dirVars>>

\* instances[k].detect_bugs(file_path, content) on an AdvancedBugDetector,
\* by a caller that has read the content
DetectBugs(k) ==
    /\ k \in 1..Len(instances)
    /\ instances[k].class = "AdvancedBugDetector"
    /\ Len(scan_log) < MaxScans
    /\ file.readable
    /\ LET self == instances[k]
       IN  scan_log' = Append(scan_log, [instance |-> k, class |-> self.class,
                                         issues |-> detect_bugs_with(self.patterns, file_path, file.lines)])
    /\ UNCHANGED <<instances, fileVars, astVars, dirVars>>

NextScan ==
    \/ Construct
    \/ \E k \in 1..MaxInstances : SecurityAnalyzerScan(k)
    \/ \E k \in 1..MaxInstances : DetectBugs(k)

SpecScan == InitScan /\ [][NextScan]_vars

ScanIssues ==
    UNION {{scan_log[e].issues[n] : n \in 1..Len(scan_log[e].issues)} :
             e \in 1..Len(scan_log)}

\* the severities the two catalogues are specified with
SpecifiedSeverity(category) ==
    CASE category = "security_sql_injection" -> "critical"
      [] category = "security_command_injection" -> "critical"
      [] category = "security_path_traversal" -> "high"
      [] category = "security_hardcoded_secrets" -> "high"
      [] category = "security_insecure_random" -> "medium"
      [] category = "bug_null_pointer" -> "high"
      [] category = "bug_resource_leak" -> "high"
      [] category = "bug_infinite_loop" -> "critical"
      [] category = "bug_type_confusion" -> "medium"
      [] category = "bug_race_condition" -> "high"
      [] OTHER -> "none"

\* the suggestions of the two lookups for a category they do not know
FallbackSuggestions ==
    { <<"Review this code for security implications">>,
      <<"Review this code for potential issues">> }

\* C20: an issue a pattern produced has the severity specified for its
\* category and a suggestion that is the same for every issue of the
\* category and is not the suggestion for an unknown category.
C20_SeverityAndSuggestionByCategory ==
    \A x \in ScanIssues :
        x.category # "analysis_error" =>
            /\ x.severity = SpecifiedSeverity(x.category)
            /\ x.suggestion # None
            /\ x.suggestion \notin FallbackSuggestions
            /\ \A y \in ScanIssues :
                  y.category = x.category => y.suggestion = x.suggestion

\* a hard-coded password and an endless loop, scanned with both catalogues
C20_Witness ==
    /\ file.readable
    /\ file.lines = <<"password = 'hunter2'", "while True:">>
    /\ \E x \in ScanIssues :
          x.category = "security_hardcoded_secrets" /\ x.severity = "high"
    /\ \E x \in ScanIssues :
          x.category = "bug_infinite_loop" /\ x.severity = "critical"

(***************************************************************************)
(* SpecObj: the four analyzer classes as objects, and the calls made on    *)
(* them.  A call takes the object as it is and gives the object as the     *)
(* call leaves it together with what the call hands back.  The directory   *)
(* analyze_directory is called on holds the one file file_path.            *)
(***************************************************************************)
\* PythonASTAnalyzer.__init__: self.issues = [], self.metrics = {}
NewPythonASTAnalyzer == [class |-> "PythonASTAnalyzer", issues |-> <<>>, metrics |-> <<>>]

\* CodeAnalyzer.__init__
NewCodeAnalyzer ==
    [class |-> "CodeAnalyzer",
     python_analyzer |-> NewPythonASTAnalyzer,
     security_analyzer |-> NewSecurityAnalyzer]

\* PythonASTAnalyzer_call with the issues found appended to self.issues and
\* self.issues handed back.
PythonASTAnalyzer_call_KeepsIssues(self, fp, f) ==
    LET out == PythonASTAnalyzer_analyze_file(fp, f) IN
    [self |-> [self EXCEPT !.issues = @ \o out.issues],
     out |-> [out EXCEPT !.issues = self.issues \o @]]

\* self.analyze_file(file_path) on a PythonASTAnalyzer: content, tree,
\* issues and metrics are locals; no attribute of self is read or assigned
PythonASTAnalyzer_call(self, fp, f) ==
    [self |-> self, out |-> PythonASTAnalyzer_analyze_file(fp, f)]

\* self.analyze_file(file_path) on a SecurityAnalyzer: issues is a local,
\* self.security_patterns is read
SecurityAnalyzer_call(self, fp, f) ==
    [self |-> self,
     out |-> IF f.readable
             THEN ReturnedIssues(SecurityScanWith(self.patterns, fp, f.lines), 1)
             ELSE SecurityAnalyzer_analyze_file(fp, f)]

\* self.detect_bugs(file_path, content) on an AdvancedBugDetector: issues
\* is a local, self.bug_patterns is read
AdvancedBugDetector_call(self, fp, f) ==
    [self |-> self,
     out |-> ReturnedIssues(detect_bugs_with(self.patterns, fp, f.lines), 0)]

\* self.analyze_file(file_path) on a CodeAnalyzer
CodeAnalyzer_call(self, fp, f) ==
    IF Lower(Suffix(fp)) = <<".", "p", "y">>
    THEN LET py == PythonASTAnalyzer_call(self.python_analyzer, fp, f)
             sec == SecurityAnalyzer_call(self.security_analyzer, fp, f)
         IN  IF py.out.raised
             THEN [self |-> [self EXCEPT !.python_analyzer = py.self],
                   out |-> Raised(py.out.exc, py.out.opens)]
             ELSE [self |-> [self EXCEPT !.python_analyzer = py.self,
                                         !.security_analyzer = sec.self],
                   out |-> Returned(py.out.issues \o sec.out.issues, py.out.metrics[1],
                                    py.out.opens + sec.out.opens)]
    ELSE [self |-> self, out |-> Returned(<<>>, ZeroMetrics(fp), 0)]

\* self.analyze_directory(directory) on a CodeAnalyzer, with the default
\* patterns, for a directory whose only entry is the file fp
analyze_directory_call(self, fp, f) ==
    IF \E i \in 1..Len(DefaultInclude) : PathMatch(fp, DefaultInclude[i])
    THEN LET c == CodeAnalyzer_call(self, fp, f) IN
         IF c.out.raised THEN c
         ELSE [self |-> c.self,
               out |-> [raised |-> FALSE, exc |-> "",
                        issues |-> c.out.issues,
                        metrics |-> DictSet(<<>>, fp, c.out.metrics[1]),
                        total_files |-> 1,
                        total_issues |-> Len(c.out.issues)]]
    ELSE [self |-> self,
          out |-> [raised |-> FALSE, exc |-> "", issues |-> <<>>, metrics |-> <<>>,
                   total_files |-> 0, total_issues |-> 0]]

InitObj ==
    /\ file_path \in {<<"proj", "a.py">>, <<"proj", "c.js">>}
    /\ file \in DirFiles
    /\ op = "none"
    /\ result = NoResult
    /\ instances = <<>>
    /\ scan_log = <<>>
    /\ AstIdle
    /\ DirIdle

\* one of the four classes is instantiated
ConstructAnalyzer ==
    /\ Len(instances) < MaxInstances
    /\ \E self \in {NewPythonASTAnalyzer, NewSecurityAnalyzer,
                    NewAdvancedBugDetector, NewCodeAnalyzer} :
          instances' = Append(instances, self)
    /\ UNCHANGED <<scan_log, fileVars, astVars, dirVars>>

\* instances[k].analyze_file(file_path), a PythonASTAnalyzer
PythonAnalyzerAnalyzeFile(k) ==
    /\ k \in 1..Len(instances)
    /\ instances[k].class = "PythonASTAnalyzer"
    /\ Len(scan_log) < MaxScans
    /\ LET c == PythonASTAnalyzer_call(instances[k], file_path, file) IN
       /\ instances' = [instances EXCEPT ![k] = c.self]
       /\ scan_log' = Append(scan_log, [instance |-> k, class |-> instances[k].class,
                                        op |-> "analyze_file", out |-> c.out])
    /\ UNCHANGED <<fileVars, astVars, dirVars>>

\* instances[k].analyze_file(file_path), a SecurityAnalyzer
SecurityAnalyzerAnalyzeFile(k) ==
    /\ k \in 1..Len(instances)
    /\ instances[k].class = "SecurityAnalyzer"
    /\ Len(scan_log) < MaxScans
    /\ LET c == SecurityAnalyzer_call(instances[k], file_path, file) IN
       /\ instances' = [instances EXCEPT ![k] = c.self]
       /\ scan_log' = Append(scan_log, [instance |-> k, class |-> instances[k].class,
                                        op |-> "analyze_file", out |-> c.out])
    /\ UNCHANGED <<fileVars, astVars, dirVars>>

\* instances[k].detect_bugs(file_path, content), an AdvancedBugDetector, by
\* a caller that has read the content
BugDetectorDetectBugs(k) ==
    /\ k \in 1..Len(instances)
    /\ instances[k].class = "AdvancedBugDetector"
    /\ Len(scan_log) < MaxScans
    /\ file.readable
    /\ LET c == AdvancedBugDetector_call(instances[k], file_path, file) IN
       /\ instances' = [instances EXCEPT ![k] = c.self]
       /\ scan_log' = Append(scan_log, [instance |-> k, class |-> instances[k].class,
                                        op |-> "detect_bugs", out |-> c.out])
    /\ UNCHANGED <<fileVars, astVars, dirVars>>

\* instances[k].analyze_file(file_path), a CodeAnalyzer
CodeAnalyzerAnalyzeFile(k) ==
    /\ k \in 1..Len(instances)
    /\ instances[k].class = "CodeAnalyzer"
    /\ Len(scan_log) < MaxScans
    /\ LET c == CodeAnalyzer_call(instances[k], file_path, file) IN
       /\ instances' = [instances EXCEPT ![k] = c.self]
       /\ scan_log' = Append(scan_log, [instance |-> k, class |-> instances[k].class,
                                        op |-> "analyze_file", out |-> c.out])
    /\ UNCHANGED <<fileVars, astVars, dirVars>>

\* instances[k].analyze_directory(directory), a CodeAnalyzer
CodeAnalyzerAnalyzeDirectory(k) ==
    /\ k \in 1..Len(instances)
    /\ instances[k].class = "CodeAnalyzer"
    /\ Len(scan_log) < MaxScans
    /\ LET c == analyze_directory_call(instances[k], file_path, file) IN
       /\ instances' = [instances EXCEPT ![k] = c.self]
       /\ scan_log' = Append(scan_log, [instance |-> k, class |-> instances[k].class,
                                        op |-> "analyze_directory", out |-> c.out])
    /\ UNCHANGED <<fileVars, astVars, dirVars>>

NextObj ==
    \/ ConstructAnalyzer
    \/ \E k \in 1..MaxInstances : PythonAnalyzerAnalyzeFile(k)
    \/ \E k \in 1..MaxInstances : SecurityAnalyzerAnalyzeFile(k)
    \/ \E k \in 1..MaxInstances : BugDetectorDetectBugs(k)
    \/ \E k \in 1..MaxInstances : CodeAnalyzerAnalyzeFile(k)
    \/ \E k \in 1..MaxInstances : CodeAnalyzerAnalyzeDirectory(k)

SpecObj == InitObj /\ [][NextObj]_vars

\* what the call op hands back when it is made on an object of the class
\* that has just been constructed
FirstCallOut(class, m) ==
    CASE class = "PythonASTAnalyzer" ->
           PythonASTAnalyzer_call(NewPythonASTAnalyzer, file_path, file).out
      [] class = "SecurityAnalyzer" ->
           SecurityAnalyzer_call(NewSecurityAnalyzer, file_path, file).out
      [] class = "AdvancedBugDetector" ->
           AdvancedBugDetector_call(NewAdvancedBugDetector, file_path, file).out
      [] class = "CodeAnalyzer" /\ m = "analyze_file" ->
           CodeAnalyzer_call(NewCodeAnalyzer, file_path, file).out
      [] class = "CodeAnalyzer" /\ m = "analyze_directory" ->
           analyze_directory_call(NewCodeAnalyzer, file_path, file).out

\* C22: no call of analyze_file, analyze_directory or detect_bugs changes an
\* analyzer object (its catalogue, its issues and metrics attributes, the
\* analyzers it holds), and what a call hands back is what the same call
\* hands back on an object that has made no call before.
C22_CallsLeaveObjectsUnchanged ==
    [][ /\ \A k \in 1..Len(instances) :
              k <= Len(instances') /\ instances'[k] = instances[k]
        /\ Len(scan_log') = Len(scan_log) + 1 =>
              LET e == scan_log'[Len(scan_log')]
              IN  e.out = FirstCallOut(e.class, e.op) ]_vars

\* one CodeAnalyzer has analysed a flagged file and then its directory, and
\* is as it was constructed
C22_Witness ==
    /\ Len(scan_log) = 2
    /\ scan_log[1].instance = scan_log[2].instance
    /\ scan_log[1].class = "CodeAnalyzer"
    /\ scan_log[1].op = "analyze_file"
    /\ scan_log[2].op = "analyze_directory"
    /\ Len(scan_log[1].out.issues) >= 3
    /\ scan_log[2].out.issues = scan_log[1].out.issues
    /\ instances[scan_log[1].instance] = NewCodeAnalyzer

(***************************************************************************)
(* SpecCat: the two pattern scans as functions of the catalogue they read. *)
(* self.security_patterns and self.bug_patterns are plain attributes, read *)
(* when the scan runs; the scanned object holds the catalogue __init__     *)
(* built, or that catalogue with the pattern "(" put in front of one       *)
(* category's list.  re.search compiles the pattern first, and "(" does    *)
(* not compile: re.error is raised on the first line it is tried on.       *)
(***************************************************************************)
ReCompiles(pattern) == pattern # "("

\* self.<catalogue>[category].insert(0, '(') for the c-th category
WithBadPattern(catalogue, c) == [catalogue EXCEPT ![c].patterns = <<"(">> \o @]

\* the (category, pattern) pairs in the order the two outer loops take them
PatternPairs(patterns) ==
    Concat([c \in 1..Len(patterns) |->
              [k \in 1..Len(patterns[c].patterns) |-> <<c, k>>]])

\* the first pair whose pattern re.search cannot compile; 0 if all compile
FirstFailure(patterns) ==
    LET pp == PatternPairs(patterns)
        bad == {n \in 1..Len(pp) : ~ReCompiles(patterns[pp[n][1]].patterns[pp[n][2]])}
    IN  IF bad = {} THEN 0 ELSE CHOOSE n \in bad : \A m \in bad : n <= m

\* SecurityAnalyzer.analyze_file: the loops run inside one try statement
\* that starts before open(); its handler appends one analysis_error issue
\* to what the loops had appended, and the issues are returned.
SecurityAnalyzer_scan(patterns, fp, f) ==
    IF ~f.readable THEN SecurityAnalyzer_analyze_file(fp, f)
    ELSE LET pp == PatternPairs(patterns)
             n == FirstFailure(patterns)
             done == IF n = 0 THEN Len(pp) ELSE n - 1
             found == Concat([m \in 1..done |->
                        Concat([i \in 1..Len(f.lines) |->
                          IF ReSearch(patterns[pp[m][1]].patterns[pp[m][2]], f.lines[i])
                          THEN <<SecurityIssue(fp, patterns[pp[m][1]].category, i, f.lines[i])>>
                          ELSE <<>>])])
         IN  ReturnedIssues(
               IF n = 0 THEN found
               ELSE Append(found,
                      CodeIssue(fp, 0, 0, "high", "analysis_error",
                                <<"Security analysis error: ",
                                  "missing ), unterminated subpattern at position 0">>,
                                None, None)),
               1)

\* AdvancedBugDetector.detect_bugs: the loops are in no try statement
detect_bugs_scan(patterns, fp, f) ==
    IF FirstFailure(patterns) # 0 THEN Raised("re.error", 0)
    ELSE ReturnedIssues(detect_bugs_with(patterns, fp, f.lines), 0)

\* the objects scanned with
CatalogueObjects ==
    {NewSecurityAnalyzer, NewAdvancedBugDetector}
    \cup {[NewSecurityAnalyzer EXCEPT !.patterns = WithBadPattern(@, c)] :
            c \in 1..Len(security_patterns)}
    \cup {[NewAdvancedBugDetector EXCEPT !.patterns = WithBadPattern(@, c)] :
            c \in 1..Len(bug_patterns)}

InitCat ==
    /\ file_path = <<"proj", "a.py">>
    /\ file \in ScanFiles
    /\ op = "none"
    /\ result = NoResult
    /\ \E self \in CatalogueObjects : instances = <<self>>
    /\ scan_log = <<>>
    /\ AstIdle
    /\ DirIdle

\* instances[1].analyze_file(file_path), a SecurityAnalyzer
CatalogueSecurityScan ==
    /\ instances[1].class = "SecurityAnalyzer"
    /\ Len(scan_log) < MaxScans
    /\ scan_log' = Append(scan_log,
                     [instance |-> 1, class |-> instances[1].class, op |-> "analyze_file",
                      out |-> SecurityAnalyzer_scan(instances[1].patterns, file_path, file)])
    /\ UNCHANGED <<instances, fileVars, astVars, dirVars>>

\* instances[1].detect_bugs(file_path, content), an AdvancedBugDetector, by
\* a caller that has read the content
CatalogueDetectBugs ==
    /\ instances[1].class = "AdvancedBugDetector"
    /\ Len(scan_log) < MaxScans
    /\ file.readable
    /\ scan_log' = Append(scan_log,
                     [instance |-> 1, class |-> instances[1].class, op |-> "detect_bugs",
                      out |-> detect_bugs_scan(instances[1].patterns, file_path, file)])
    /\ UNCHANGED <<instances, fileVars, astVars, dirVars>>

NextCat ==
    \/ CatalogueSecurityScan
    \/ CatalogueDetectBugs

SpecCat == InitCat /\ [][NextCat]_vars

\* the categories of a catalogue with a pattern that cannot be evaluated
FailingCategories(catalogue) ==
    {c \in 1..Len(catalogue) :
       \E k \in 1..Len(catalogue[c].patterns) : ~ReCompiles(catalogue[c].patterns[k])}

\* the category an issue of the scan carries for a catalogue category
IssueCategory(class, category) ==
    IF class = "SecurityAnalyzer" THEN SecurityCategory(category) ELSE BugCategory(category)

ReadFiles == DirFiles \cup {f \in Files : Len(f.lines) = 1 /\ f.parse.kind = "ok"}

InitRead ==
    /\ file_path \in FilePaths
    /\ file \in ReadFiles
    /\ op = "none"
    /\ result = NoResult
    /\ AstIdle
    /\ DirIdle
    /\ ScanIdle

\* the suffix is not .py: the else branch returns without opening the file
ReturnForOtherSuffix ==
    /\ op = "none"
    /\ ~IsPy(file_path)
    /\ op' = "returned"
    /\ result' = Returned(<<>>, ZeroMetrics(file_path), 0)
    /\ UNCHANGED <<file_path, file, astVars, dirVars, scanVars>>

\* ast_issues, metrics = self.python_analyzer.analyze_file(file_path):
\* the file is opened and read as it is now
PythonAnalyzerReads ==
    /\ op = "none"
    /\ IsPy(file_path)
    /\ LET ast == PythonASTAnalyzer_analyze_file(file_path, file) IN
       /\ result' = ast
       /\ op' = IF ast.raised THEN "raised" ELSE "parsed"
    /\ UNCHANGED <<file_path, file, astVars, dirVars, scanVars>>

\* security_issues = self.security_analyzer.analyze_file(file_path): the
\* file is opened and read again, as it is now; then
\* return ast_issues + security_issues, metrics
SecurityAnalyzerReads ==
    /\ op = "parsed"
    /\ LET security == SecurityAnalyzer_analyze_file(file_path, file) IN
       result' = Returned(result.issues \o security.issues, result.metrics[1],
                          result.opens + security.opens)
    /\ op' = "returned"
    /\ UNCHANGED <<file_path, file, astVars, dirVars, scanVars>>

\* another process writes the file anew, or removes it, before the call or
\* between its two reads
OtherProcessWrites ==
    /\ op \in {"none", "parsed"}
    /\ file' \in ReadFiles \ {file}
    /\ UNCHANGED <<file_path, op, result, astVars, dirVars, scanVars>>

NextRead ==
    \/ ReturnForOtherSuffix
    \/ PythonAnalyzerReads
    \/ SecurityAnalyzerReads
    \/ OtherProcessWrites

SpecRead == InitRead /\ [][NextRead]_vars

\* C29: what one call of analyze_file returns for a .py file is computed
\* from one content of the file: there is a file state of which the issues
\* of the structural analysis, the metrics and the issues of the pattern
\* scan returned are all the analysis, even when the file is written or
\* removed during the call.
C29_OneContentPerCall ==
    (op = "returned" /\ IsPy(file_path)) =>
        \E f \in ReadFiles : result = CodeAnalyzer_analyze_file(file_path, f)

====
